---- MODULE Spec2Model ----
(***************************************************************************)
(* Model of interpret/glassbox/ebm/internal.py: the NativeEBMBooster and   *)
(* NativeEBMInteraction sessions around the native EBM engine, and the two *)
(* NativeHelper entry points cyclic_gradient_boost and get_interactions.   *)
(*                                                                         *)
(* Spec        one call of cyclic_gradient_boost or of get_interactions,   *)
(*             one step per native call and per loop bookkeeping step.     *)
(* SpecSession a caller driving one open NativeEBMBooster through its      *)
(*             methods in any order with any arguments.                    *)
(*                                                                         *)
(* The native engine is not Python code: its return codes, metrics and     *)
(* scores are chosen nondeterministically at every call.                   *)
(***************************************************************************)
EXTENDS Integers, Sequences, FiniteSets, TLC

VARIABLES
    entry,      \* which NativeHelper entry point runs ("session": none, direct use)
    pc,         \* position inside the entry point
    args,       \* the arguments of the call
    booster,    \* the NativeEBMBooster object (its attributes)
    detector,   \* the NativeEBMInteraction object (its attributes)
    native,     \* the native engine: handle states, ensemble, calls received
    locals,     \* local variables of the running entry point
    exc,        \* the exception propagating out of the entry point, or "none"
    result,     \* the value returned by the entry point
    hist        \* history of the run (rounds, metrics seen, method calls)

vars == <<entry, pc, args, booster, detector, native, locals, exc, result, hist>>

(***************************************************************************)
(* Bounds of the model                                                     *)
(***************************************************************************)
MaxRounds == 3
MaxGroups == 2
MaxCandidates == 2
MaxOps == 3
MaxThreads == 3

\* np.inf
Inf == 99

\* validation metrics the engine may answer with
Metrics == {1, 2, 3}
Scores == {1, 2}
Tolerances == {-1, 0, 1}
EarlyStoppingRounds == {-1, 0, 1, 2}
\* native return codes the engine may answer with: success and a failure
ReturnCodes == {0, 2}

NativeFunctions == {"CreateBooster", "FreeBooster", "GenerateModelUpdate",
                    "ApplyModelUpdate", "GetBestModelFeatureGroup",
                    "GetCurrentModelFeatureGroup", "GetModelUpdateExpanded",
                    "SetModelUpdateExpanded", "GetModelUpdateCuts",
                    "CreateInteractionDetector", "FreeInteractionDetector",
                    "CalculateInteractionScore"}

RECURSIVE SeqsUpTo(_, _)
SeqsUpTo(S, n) ==
    IF n = 0 THEN {<<>>}
    ELSE LET shorter == SeqsUpTo(S, n - 1)
         IN shorter \cup {Append(s, x) : s \in {t \in shorter : Len(t) = n - 1}, x \in S}

SetMin(S) == CHOOSE x \in S : \A y \in S : x <= y
SetMax(S) == CHOOSE x \in S : \A y \in S : y <= x

(***************************************************************************)
(* Native: helpers of the binding                                          *)
(***************************************************************************)
\* the table with the text of code 17 repeated for code 18
get_native_exception_repeating(error_code, native_function) ==
    LET in_function(text) ==
            [text |-> text, code |-> <<>>, function |-> <<native_function>>]
        plain(text) == [text |-> text, code |-> <<>>, function |-> <<>>]
    IN CASE error_code = 2 -> in_function("Out of memory")
         [] error_code = 3 -> in_function("Unexpected internal error")
         [] error_code = 4 -> in_function("Illegal native parameter value")
         [] error_code = 5 -> in_function("User native parameter value error")
         [] error_code = 6 -> in_function("Thread start failed")
         [] error_code = 10 -> in_function("Loss constructor native exception")
         [] error_code = 11 -> plain("Loss parameter unknown")
         [] error_code = 12 -> plain("Loss parameter value malformed")
         [] error_code = 13 -> plain("Loss parameter value out of range")
         [] error_code = 14 -> plain("Loss parameter mismatch")
         [] error_code = 15 -> plain("Unrecognized loss type")
         [] error_code = 16 -> plain("Illegal loss registration name")
         [] error_code = 17 -> plain("Illegal loss parameter name")
         [] error_code = 18 -> plain("Illegal loss parameter name")
         [] OTHER -> [text |-> "Unrecognized native return code",
                      code |-> <<error_code>>, function |-> <<native_function>>]

\* Native._get_native_exception: the error for a return code.  The message is
\* kept in its parts: the text, the code when the text names it, and the
\* native function when the text names it.
Native_get_native_exception(error_code, native_function) ==
    LET in_function(text) ==
            [text |-> text, code |-> <<>>, function |-> <<native_function>>]
        plain(text) == [text |-> text, code |-> <<>>, function |-> <<>>]
    IN CASE error_code = 2 -> in_function("Out of memory")
         [] error_code = 3 -> in_function("Unexpected internal error")
         [] error_code = 4 -> in_function("Illegal native parameter value")
         [] error_code = 5 -> in_function("User native parameter value error")
         [] error_code = 6 -> in_function("Thread start failed")
         [] error_code = 10 -> in_function("Loss constructor native exception")
         [] error_code = 11 -> plain("Loss parameter unknown")
         [] error_code = 12 -> plain("Loss parameter value malformed")
         [] error_code = 13 -> plain("Loss parameter value out of range")
         [] error_code = 14 -> plain("Loss parameter mismatch")
         [] error_code = 15 -> plain("Unrecognized loss type")
         [] error_code = 16 -> plain("Illegal loss registration name")
         [] error_code = 17 -> plain("Illegal loss parameter name")
         [] error_code = 18 -> plain("Duplicate loss parameter name")
         [] OTHER -> [text |-> "Unrecognized native return code",
                      code |-> <<error_code>>, function |-> <<native_function>>]

\* the error a session method raises for a return code, by its text
get_native_exception(error_code) ==
    Native_get_native_exception(error_code, "").text

\* Native._TraceLevel*
TraceLevelOff == 0
TraceLevelError == 1
TraceLevelWarning == 2
TraceLevelInfo == 3
TraceLevelVerbose == 4

\* The Native class and the binding object it makes.  Objects are numbered in
\* the order they are made, and 0 stands for None.
NoNative ==
    [singleton |-> 0,            \* Native._native
     attempts |-> 0,             \* runs of Native._initialize
     loads |-> 0,                \* runs that loaded the library
     typed_log_func |-> 0,       \* self._typed_log_func of the binding
     callbacks |-> 0,            \* _LogFuncType(native_log) objects made
     log_func |-> 0,             \* the callback last passed to SetLogMessageFunction
     trace_level |-> -1,         \* the level last passed to SetTraceLevel, -1: none
     calls |-> [SetLogMessageFunction |-> 0, SetTraceLevel |-> 0]]

\* Native() followed by _initialize on it: a new binding with its own library
\* handle and no log callback, unless the library cannot be found or loaded
\* (loaded is FALSE) and _initialize raises
Native_initialize(cls, loaded) ==
    IF loaded
    THEN [cls EXCEPT !.attempts = @ + 1, !.loads = @ + 1, !.typed_log_func = 0]
    ELSE [cls EXCEPT !.attempts = @ + 1]

\* get_native_singleton with Native._native assigned before _initialize runs
get_native_singleton_recording_first(cls, loaded) ==
    IF cls.singleton = 0
    THEN IF loaded
         THEN [native |-> [Native_initialize(cls, loaded) EXCEPT
                              !.singleton = cls.loads + 1],
               raised |-> "none", value |-> cls.loads + 1]
         ELSE [native |-> [Native_initialize(cls, loaded) EXCEPT
                              !.singleton = cls.loads + 1],
               raised |-> "OSError", value |-> 0]
    ELSE [native |-> cls, raised |-> "none", value |-> cls.singleton]

\* Native.get_native_singleton, run without interruption
get_native_singleton(cls, loaded) ==
    IF cls.singleton = 0
    THEN IF loaded
         THEN [native |-> [Native_initialize(cls, loaded) EXCEPT
                              !.singleton = cls.loads + 1],
               raised |-> "none", value |-> cls.loads + 1]
         ELSE [native |-> Native_initialize(cls, loaded),
               raised |-> "OSError", value |-> 0]
    ELSE [native |-> cls, raised |-> "none", value |-> cls.singleton]

\* levels are written as Python writes them: logging.DEBUG is the integer
\* constant, DEBUG the string
LoggingLevels == {"logging.DEBUG", "logging.INFO", "logging.WARNING",
                  "logging.ERROR", "logging.CRITICAL", "logging.NOTSET"}
LevelNames == {"DEBUG", "INFO", "WARNING", "ERROR", "CRITICAL", "NOTSET"}

level_dict ==
    [level \in LoggingLevels \cup LevelNames |->
        CASE level \in {"logging.DEBUG", "DEBUG"} -> TraceLevelVerbose
          [] level \in {"logging.INFO", "INFO"} -> TraceLevelInfo
          [] level \in {"logging.WARNING", "WARNING"} -> TraceLevelWarning
          [] level \in {"logging.ERROR", "ERROR"} -> TraceLevelError
          [] level \in {"logging.CRITICAL", "CRITICAL"} -> TraceLevelError
          [] level \in {"logging.NOTSET", "NOTSET"} -> TraceLevelOff]

\* set_logging that wraps and passes a callback whenever the level is not Off
set_logging_reinstalling(cls, level, effective_level) ==
    LET resolved == IF level = "None" THEN effective_level ELSE level
        trace_level == level_dict[resolved]
        installs == trace_level # TraceLevelOff
        cls1 == IF installs
                THEN [cls EXCEPT !.callbacks = @ + 1,
                                 !.typed_log_func = cls.callbacks + 1,
                                 !.log_func = cls.callbacks + 1,
                                 !.calls.SetLogMessageFunction = @ + 1]
                ELSE cls
    IN IF resolved \notin DOMAIN level_dict
       THEN [native |-> cls, raised |-> "KeyError"]
       ELSE [native |-> [cls1 EXCEPT !.trace_level = trace_level,
                                     !.calls.SetTraceLevel = @ + 1],
             raised |-> "none"]

\* Native.set_logging(level); effective_level is what the "interpret" logger
\* answers when level is None
set_logging(cls, level, effective_level) ==
    LET resolved == IF level = "None" THEN effective_level ELSE level
        trace_level == level_dict[resolved]
        installs == cls.typed_log_func = 0 /\ trace_level # TraceLevelOff
        cls1 == IF installs
                THEN [cls EXCEPT !.callbacks = @ + 1,
                                 !.typed_log_func = cls.callbacks + 1,
                                 !.log_func = cls.callbacks + 1,
                                 !.calls.SetLogMessageFunction = @ + 1]
                ELSE cls
    IN IF resolved \notin DOMAIN level_dict
       THEN [native |-> cls, raised |-> "KeyError"]
       ELSE [native |-> [cls1 EXCEPT !.trace_level = trace_level,
                                     !.calls.SetTraceLevel = @ + 1],
             raised |-> "none"]

get_count_scores_c(n_classes) == IF n_classes <= 2 THEN 1 ELSE n_classes

(***************************************************************************)
(* Python sequences are indexed from 0 and accept negative indexes.        *)
(***************************************************************************)
PyIndexOk(seq, i) == -Len(seq) <= i /\ i < Len(seq)
PyIndex(seq, i) == IF i >= 0 THEN seq[i + 1] ELSE seq[Len(seq) + i + 1]
Reversed(seq) == [i \in 1..Len(seq) |-> seq[Len(seq) + 1 - i]]
\* np.transpose(t, (1, 0)) and np.transpose(t, (1, 0, 2)) on the shape of t
TransposeFirstTwo(shape) ==
    [i \in 1..Len(shape) |-> IF i = 1 THEN shape[2] ELSE IF i = 2 THEN shape[1] ELSE shape[i]]

\* a tensor argument or result: None, or an ndarray of some shape
NoTensor == [type |-> "NoneType", shape |-> <<>>]
NdArray(shape) == [type |-> "ndarray", shape |-> shape]

\* an ndarray with its elements, in C (row-major) order
Tensor(shape, data) == [type |-> "ndarray", shape |-> shape, data |-> data]
RECURSIVE Product(_)
Product(shape) == IF shape = <<>> THEN 1 ELSE Head(shape) * Product(Tail(shape))
\* np.transpose(t, (1, 0)) and np.transpose(t, (1, 0, 2)) on the elements of t:
\* element (j, i, l) of the result is element (i, j, l) of t
TransposeData(shape, data) ==
    LET a == shape[1]
        b == shape[2]
        k == IF Len(shape) = 3 THEN shape[3] ELSE 1
    IN [p \in 1..(a * b * k) |->
          LET q == p - 1
              l == q % k
              i == (q \div k) % a
              j == (q \div k) \div a
          IN data[(i * b + j) * k + l + 1]]
Count(nat, f) == [nat EXCEPT !.calls[f] = @ + 1]
\* a native call on a booster handle: counted, and noted when the handle is not live
OnBooster(nat, f) ==
    [Count(nat, f) EXCEPT !.stale = @ + (IF nat.booster = "live" THEN 0 ELSE 1)]
OnDetector(nat, f) ==
    [Count(nat, f) EXCEPT !.stale = @ + (IF nat.detector = "live" THEN 0 ELSE 1)]

SingleClass(self) == self.model_type = "classification" /\ self.n_classes <= 1

(***************************************************************************)
(* The native engine, at its boundary.  A booster keeps the current        *)
(* ensemble (identified by the number of updates applied) and the best     *)
(* one: the ensemble as of the lowest validation metric so far.            *)
(***************************************************************************)
NativeInit ==
    [booster |-> "none", detector |-> "none", cur |-> 0, best |-> 0,
     best_metric |-> Inf, update |-> -1, tensor |-> NoTensor, stale |-> 0,
     score_of |-> <<>>,
     calls |-> [f \in NativeFunctions |-> 0]]

EngineCreateBooster(nat) ==
    [nat EXCEPT !.booster = "live", !.cur = 0, !.best = 0, !.best_metric = Inf,
                !.update = -1, !.tensor = NoTensor]

\* GenerateModelUpdate computes an update of its own for group g
EngineGenerate(nat, g) == [nat EXCEPT !.update = g, !.tensor = NoTensor]

\* SetModelUpdateExpanded keeps the tensor it is handed as the update of group g
EngineSet(nat, g, tensor) == [nat EXCEPT !.update = g, !.tensor = tensor]

\* the elements GetModelUpdateExpanded writes into a buffer of size cells: those
\* of the tensor it was handed, or those of the update it computed
EngineUpdateData(nat, size) ==
    IF nat.tensor = NoTensor THEN [i \in 1..size |-> 0] ELSE nat.tensor.data

EngineApply(nat, metric) ==
    LET step == nat.cur + 1
    IN [nat EXCEPT !.cur = step, !.update = -1, !.tensor = NoTensor,
                   !.best = IF metric < nat.best_metric THEN step ELSE @,
                   !.best_metric = IF metric < nat.best_metric THEN metric ELSE @]

EngineFreeBooster(nat) ==
    [nat EXCEPT !.booster = IF @ = "none" THEN "none" ELSE "freed"]

\* return codes the engine can answer GenerateModelUpdate/SetModelUpdateExpanded
\* with: it rejects an index that names no feature group
EngineIndexCodes(self, g) ==
    IF 0 <= g /\ g < Len(self.feature_groups) THEN ReturnCodes ELSE ReturnCodes \ {0}

(***************************************************************************)
(* NativeEBMBooster.  Every method maps the object, the engine and the     *)
(* engine's answer to the object and engine afterwards, the exception      *)
(* raised ("none" when it returns) and the value returned.                 *)
(***************************************************************************)
NoBooster ==
    [booster_handle |-> "None", feature_group_index |-> -1, model_type |-> "None",
     n_classes |-> 0, features_bin_count |-> <<>>, feature_groups |-> <<>>]

Outcome(self, nat, raised, value) ==
    [self |-> self, native |-> nat, raised |-> raised, value |-> value, at_call |-> {},
     handed |-> <<>>]

\* an outcome whose native call saw the object's staged index as it was in seen
Called(seen, o) == [o EXCEPT !.at_call = {seen.feature_group_index}]

\* an outcome whose native create call was handed these score arrays
Handed(scores, o) == [o EXCEPT !.handed = scores]

\* Arrays are given by their shapes; len(a) is shape[0].  The checks of the
\* arrays other than scores, in the order the constructor makes them.
booster_inputs_error(a) ==
    IF Len(a.X_train) # 2 THEN "ValueError"
    ELSE IF Len(a.y_train) # 1 THEN "ValueError"
    ELSE IF a.X_train[1] # Len(a.features_categorical) THEN "ValueError"
    ELSE IF a.X_train[1] # Len(a.features_bin_count) THEN "ValueError"
    ELSE IF a.X_train[2] # a.y_train[1] THEN "ValueError"
    ELSE IF Len(a.X_val) # 2 THEN "ValueError"
    ELSE IF Len(a.y_val) # 1 THEN "ValueError"
    ELSE IF a.X_val[1] # a.X_train[1] THEN "ValueError"
    ELSE IF a.X_val[2] # a.y_val[1] THEN "ValueError"
    ELSE IF a.w_train # a.y_train \/ a.w_val # a.y_val THEN "ValueError"
    ELSE "none"

\* a supplied score array is accepted whatever its second dimension
scores_checked_any_width(scores, y, n_scores) ==
    IF scores = NoTensor
    THEN [raised |-> "none", value |-> NdArray(<<y[1] * n_scores>>)]
    ELSE IF scores.shape = <<>> THEN [raised |-> "IndexError", value |-> NoTensor]
    ELSE IF scores.shape[1] # y[1] THEN [raised |-> "ValueError", value |-> NoTensor]
    ELSE IF n_scores = 1 /\ Len(scores.shape) # 1
    THEN [raised |-> "ValueError", value |-> NoTensor]
    ELSE IF n_scores # 1 /\ Len(scores.shape) # 2
    THEN [raised |-> "ValueError", value |-> NoTensor]
    ELSE [raised |-> "none", value |-> scores]

\* the score array handed to the engine for targets y: zeros when none is
\* supplied, else the supplied array once its shape is checked
scores_checked(scores, y, n_scores) ==
    IF scores = NoTensor
    THEN [raised |-> "none", value |-> NdArray(<<y[1] * n_scores>>)]
    ELSE IF scores.shape = <<>> THEN [raised |-> "IndexError", value |-> NoTensor]
    ELSE IF scores.shape[1] # y[1] THEN [raised |-> "ValueError", value |-> NoTensor]
    ELSE IF n_scores = 1 /\ Len(scores.shape) # 1
    THEN [raised |-> "ValueError", value |-> NoTensor]
    ELSE IF n_scores # 1 /\ Len(scores.shape) # 2
    THEN [raised |-> "ValueError", value |-> NoTensor]
    ELSE IF n_scores # 1 /\ scores.shape[2] # n_scores
    THEN [raised |-> "ValueError", value |-> NoTensor]
    ELSE [raised |-> "none", value |-> scores]

NativeEBMBooster_init(nat, a, return_code) ==
    LET self0 == NoBooster
        self1 == [self0 EXCEPT !.model_type = a.model_type, !.n_classes = a.n_classes,
                               !.features_bin_count = a.features_bin_count,
                               !.feature_groups = a.feature_groups]
        nat1 == Count(nat, "CreateBooster")
        n_scores == get_count_scores_c(a.n_classes)
        scores_train == scores_checked(a.scores_train, a.y_train, n_scores)
        scores_val == scores_checked(a.scores_val, a.y_val, n_scores)
        handed == <<scores_train.value, scores_val.value>>
    IN IF booster_inputs_error(a) # "none"
       THEN Outcome(self0, nat, booster_inputs_error(a), "None")
       ELSE IF scores_train.raised # "none"
       THEN Outcome(self1, nat, scores_train.raised, "None")
       ELSE IF scores_val.raised # "none"
       THEN Outcome(self1, nat, scores_val.raised, "None")
       ELSE IF a.model_type \notin {"classification", "regression"}
       THEN Outcome(self1, nat, "AttributeError", "None")
       ELSE IF return_code # 0
       THEN Handed(handed,
                   Outcome(self1, nat1, get_native_exception(return_code), "None"))
       ELSE Handed(handed,
                   Outcome([self1 EXCEPT !.booster_handle = "H"],
                           EngineCreateBooster(nat1), "none", "None"))

NativeEBMBooster_close(self, nat) ==
    Outcome(self, EngineFreeBooster(Count(nat, "FreeBooster")), "none", "None")

generate_model_update_keeps(self, nat, feature_group_index, return_code) ==
    LET nat1 == OnBooster(nat, "GenerateModelUpdate")
    IN IF ~PyIndexOk(self.feature_groups, feature_group_index)
       THEN Outcome(self, nat, "IndexError", "None")
       ELSE IF return_code # 0
       THEN Called(self, Outcome(self, nat1, get_native_exception(return_code), "None"))
       ELSE Called(self, Outcome([self EXCEPT !.feature_group_index = feature_group_index],
                                 EngineGenerate(nat1, feature_group_index), "none", "gain"))

generate_model_update(self, nat, feature_group_index, return_code) ==
    LET self1 == [self EXCEPT !.feature_group_index = -1]
        nat1 == OnBooster(nat, "GenerateModelUpdate")
    IN IF ~PyIndexOk(self.feature_groups, feature_group_index)
       THEN Outcome(self1, nat, "IndexError", "None")
       ELSE IF return_code # 0
       THEN Called(self1, Outcome(self1, nat1, get_native_exception(return_code), "None"))
       ELSE Called(self1, Outcome([self1 EXCEPT !.feature_group_index = feature_group_index],
                                  EngineGenerate(nat1, feature_group_index), "none", "gain"))

\* apply_model_update that leaves the staged index as it finds it
apply_model_update_keeping(self, nat, return_code, metric) ==
    LET nat1 == OnBooster(nat, "ApplyModelUpdate")
    IN IF return_code # 0
       THEN Called(self, Outcome(self, nat1, get_native_exception(return_code), "None"))
       ELSE Called(self, Outcome(self, EngineApply(nat1, metric), "none", metric))

\* apply_model_update with the staged index cleared once the native call has
\* succeeded
apply_model_update_clearing_late(self, nat, return_code, metric) ==
    LET self1 == [self EXCEPT !.feature_group_index = -1]
        nat1 == OnBooster(nat, "ApplyModelUpdate")
    IN IF return_code # 0
       THEN Called(self, Outcome(self, nat1, get_native_exception(return_code), "None"))
       ELSE Called(self, Outcome(self1, EngineApply(nat1, metric), "none", metric))

apply_model_update(self, nat, return_code, metric) ==
    LET self1 == [self EXCEPT !.feature_group_index = -1]
        nat1 == OnBooster(nat, "ApplyModelUpdate")
    IN IF return_code # 0
       THEN Called(self1, Outcome(self1, nat1, get_native_exception(return_code), "None"))
       ELSE Called(self1, Outcome(self1, EngineApply(nat1, metric), "none", metric))

\* the dimensions left in the order of the group's features
get_feature_group_shape_in_order(self, feature_group_index) ==
    LET feature_indexes == PyIndex(self.feature_groups, feature_group_index)
        dimensions == [i \in 1..Len(feature_indexes) |->
                          PyIndex(self.features_bin_count, feature_indexes[i])]
        n_scores == get_count_scores_c(self.n_classes)
    IN IF n_scores > 1 THEN Append(dimensions, n_scores) ELSE dimensions

get_feature_group_shape(self, feature_group_index) ==
    LET feature_indexes == PyIndex(self.feature_groups, feature_group_index)
        dimensions == Reversed([i \in 1..Len(feature_indexes) |->
                                  PyIndex(self.features_bin_count, feature_indexes[i])])
        n_scores == get_count_scores_c(self.n_classes)
    IN IF n_scores > 1 THEN Append(dimensions, n_scores) ELSE dimensions

\* the tensor handed back as the engine wrote it, pairs too
model_feature_group_as_stored(self, snapshot, feature_group_index) ==
    LET shape == get_feature_group_shape(self, feature_group_index)
    IN IF SingleClass(self) THEN [tensor |-> NoTensor, snapshot |-> snapshot]
       ELSE [tensor |-> NdArray(shape), snapshot |-> snapshot]

\* the tensor one _get_best_model_feature_group / _get_current_model_feature_group
\* call returns: the engine's tensor of the snapshot, transposed for a pair
model_feature_group(self, snapshot, feature_group_index) ==
    LET shape == get_feature_group_shape(self, feature_group_index)
    IN IF SingleClass(self) THEN [tensor |-> NoTensor, snapshot |-> snapshot]
       ELSE [tensor |-> NdArray(IF Len(PyIndex(self.feature_groups, feature_group_index)) = 2
                                THEN TransposeFirstTwo(shape) ELSE shape),
             snapshot |-> snapshot]

\* get_best_model and get_current_model: one native read per feature group, in
\* order; fail_at > 0 is the group (counted from 1) whose read answers return_code
get_model(self, nat, f, snapshot, fail_at, return_code) ==
    LET n == Len(self.feature_groups)
        failed == ~SingleClass(self) /\ fail_at \in 1..n /\ return_code # 0
        reads == IF SingleClass(self) THEN 0 ELSE IF failed THEN fail_at ELSE n
        nat1 == [nat EXCEPT !.calls[f] = @ + reads,
                            !.stale = @ + (IF nat.booster = "live" THEN 0 ELSE reads)]
    IN IF failed THEN Outcome(self, nat1, get_native_exception(return_code), "None")
       ELSE Outcome(self, nat1, "none",
                    [index \in 1..n |-> model_feature_group(self, snapshot, index - 1)])

\* a read that drops the staged update
get_best_model_unstaging(self, nat, fail_at, return_code) ==
    LET o == get_model(self, nat, "GetBestModelFeatureGroup", nat.best, fail_at,
                       return_code)
    IN [o EXCEPT !.self.feature_group_index = -1]

get_best_model(self, nat, fail_at, return_code) ==
    get_model(self, nat, "GetBestModelFeatureGroup", nat.best, fail_at, return_code)

get_current_model(self, nat, fail_at, return_code) ==
    get_model(self, nat, "GetCurrentModelFeatureGroup", nat.cur, fail_at, return_code)

\* np.transpose(model_update, axes) raises unless the array has len(axes) axes
\* (None converts to an array without axes)
transposed_pair(self, model_update) ==
    LET axes == IF 2 < self.n_classes THEN 3 ELSE 2
    IN IF model_update = NoTensor THEN [raised |-> "ValueError", value |-> NoTensor]
       ELSE IF Len(model_update.shape) # axes
       THEN [raised |-> "ValueError", value |-> NoTensor]
       ELSE [raised |-> "none",
             value |-> Tensor(TransposeFirstTwo(model_update.shape),
                              TransposeData(model_update.shape, model_update.data))]

\* the single-class test placed before the staged-index test
get_model_update_expanded_class_first(self, nat, return_code) ==
    LET nat1 == OnBooster(nat, "GetModelUpdateExpanded")
        shape == get_feature_group_shape(self, self.feature_group_index)
        pair == Len(PyIndex(self.feature_groups, self.feature_group_index)) = 2
        model_update == Tensor(shape, EngineUpdateData(nat, Product(shape)))
    IN IF SingleClass(self) THEN Outcome(self, nat, "none", NoTensor)
       ELSE IF self.feature_group_index < 0
       THEN Outcome(self, nat, "RuntimeError", "None")
       ELSE IF ~PyIndexOk(self.feature_groups, self.feature_group_index)
       THEN Outcome(self, nat, "IndexError", "None")
       ELSE IF return_code # 0
       THEN Called(self, Outcome(self, nat1, get_native_exception(return_code), "None"))
       ELSE Called(self, Outcome(self, nat1, "none",
                                 IF pair THEN transposed_pair(self, model_update).value
                                 ELSE model_update))

\* the tensor handed back as the engine wrote it, pairs too
get_model_update_expanded_as_stored(self, nat, return_code) ==
    LET nat1 == OnBooster(nat, "GetModelUpdateExpanded")
        shape == get_feature_group_shape(self, self.feature_group_index)
        model_update == Tensor(shape, EngineUpdateData(nat, Product(shape)))
    IN IF self.feature_group_index < 0 THEN Outcome(self, nat, "RuntimeError", "None")
       ELSE IF SingleClass(self) THEN Outcome(self, nat, "none", NoTensor)
       ELSE IF ~PyIndexOk(self.feature_groups, self.feature_group_index)
       THEN Outcome(self, nat, "IndexError", "None")
       ELSE IF return_code # 0
       THEN Called(self, Outcome(self, nat1, get_native_exception(return_code), "None"))
       ELSE Called(self, Outcome(self, nat1, "none", model_update))

get_model_update_expanded(self, nat, return_code) ==
    LET nat1 == OnBooster(nat, "GetModelUpdateExpanded")
        shape == get_feature_group_shape(self, self.feature_group_index)
        pair == Len(PyIndex(self.feature_groups, self.feature_group_index)) = 2
        model_update == Tensor(shape, EngineUpdateData(nat, Product(shape)))
    IN IF self.feature_group_index < 0 THEN Outcome(self, nat, "RuntimeError", "None")
       ELSE IF SingleClass(self) THEN Outcome(self, nat, "none", NoTensor)
       ELSE IF ~PyIndexOk(self.feature_groups, self.feature_group_index)
       THEN Outcome(self, nat, "IndexError", "None")
       ELSE IF return_code # 0
       THEN Called(self, Outcome(self, nat1, get_native_exception(return_code), "None"))
       ELSE Called(self, Outcome(self, nat1, "none",
                                 IF pair THEN transposed_pair(self, model_update).value
                                 ELSE model_update))

\* a[:stop] on an array of n entries: how many entries it has
PySliceTo(n, stop) ==
    IF stop >= 0 THEN (IF stop < n THEN stop ELSE n)
    ELSE (IF n + stop > 0 THEN n + stop ELSE 0)

\* the cuts GetModelUpdateCuts wrote for a dimension, as the caller keeps them:
\* entry i names the i-th cut the engine chose on that dimension
EngineCuts(dimension_index, kept) == [i \in 1..kept |-> <<dimension_index, i>>]

\* the method with a cut buffer of n_bins entries
get_model_update_cuts_per_bin(self, nat, counts, fail_at, return_code) ==
    LET feature_indexes == PyIndex(self.feature_groups, self.feature_group_index)
        n == Len(feature_indexes)
        n_bins(d) == self.features_bin_count[feature_indexes[d] + 1]
        failed == fail_at \in 1..n /\ return_code # 0
        reads == IF failed THEN fail_at ELSE n
        nat1 == [nat EXCEPT !.calls["GetModelUpdateCuts"] = @ + reads,
                            !.stale = @ + (IF nat.booster = "live" THEN 0 ELSE reads)]
    IN IF self.feature_group_index < 0 THEN Outcome(self, nat, "RuntimeError", "None")
       ELSE IF ~PyIndexOk(self.feature_groups, self.feature_group_index)
       THEN Outcome(self, nat, "IndexError", "None")
       ELSE IF failed
       THEN Called(self, Outcome(self, nat1, get_native_exception(return_code), "None"))
       ELSE Called(self, Outcome(self, nat1, "none",
                [d \in 1..n |-> EngineCuts(d - 1, PySliceTo(n_bins(d), counts[d]))]))

\* get_model_update_cuts: one GetModelUpdateCuts call per member feature of the
\* staged group, in member order; counts[d] is the number of cuts the engine
\* reports for dimension d, fail_at > 0 the dimension (counted from 1) whose
\* call answers return_code
get_model_update_cuts(self, nat, counts, fail_at, return_code) ==
    LET feature_indexes == PyIndex(self.feature_groups, self.feature_group_index)
        n == Len(feature_indexes)
        n_bins(d) == self.features_bin_count[feature_indexes[d] + 1]
        failed == fail_at \in 1..n /\ return_code # 0
        reads == IF failed THEN fail_at ELSE n
        nat1 == [nat EXCEPT !.calls["GetModelUpdateCuts"] = @ + reads,
                            !.stale = @ + (IF nat.booster = "live" THEN 0 ELSE reads)]
    IN IF self.feature_group_index < 0 THEN Outcome(self, nat, "RuntimeError", "None")
       ELSE IF ~PyIndexOk(self.feature_groups, self.feature_group_index)
       THEN Outcome(self, nat, "IndexError", "None")
       ELSE IF failed
       THEN Called(self, Outcome(self, nat1, get_native_exception(return_code), "None"))
       ELSE Called(self, Outcome(self, nat1, "none",
                [d \in 1..n |-> EngineCuts(d - 1, PySliceTo(n_bins(d) - 1, counts[d]))]))

\* set_model_update_expanded without the clearing of the staged index at entry
set_model_update_expanded_keeping(self, nat, feature_group_index, model_update, return_code) ==
    LET self1 == self
        nat1 == OnBooster(nat, "SetModelUpdateExpanded")
        pair == Len(PyIndex(self.feature_groups, feature_group_index)) = 2
        t == IF pair THEN transposed_pair(self, model_update)
             ELSE [raised |-> "none", value |-> model_update]
    IN IF SingleClass(self)
       THEN IF model_update = NoTensor
            THEN Outcome([self1 EXCEPT !.feature_group_index = feature_group_index],
                         nat, "none", "None")
            ELSE Outcome(self1, nat, "ValueError", "None")
       ELSE IF ~PyIndexOk(self.feature_groups, feature_group_index)
       THEN Outcome(self1, nat, "IndexError", "None")
       ELSE IF t.raised # "none" THEN Outcome(self1, nat, t.raised, "None")
       ELSE IF t.value = NoTensor THEN Outcome(self1, nat, "AttributeError", "None")
       ELSE IF get_feature_group_shape(self, feature_group_index) # t.value.shape
       THEN Outcome(self1, nat, "ValueError", "None")
       ELSE IF return_code # 0
       THEN Called(self1, Outcome(self1, nat1, get_native_exception(return_code), "None"))
       ELSE Called(self1, Outcome([self1 EXCEPT !.feature_group_index = feature_group_index],
                                  EngineSet(nat1, feature_group_index, t.value),
                                  "none", "None"))

\* a single-class session that takes a concrete tensor as it takes None
set_model_update_expanded_any(self, nat, feature_group_index, model_update, return_code) ==
    LET self1 == [self EXCEPT !.feature_group_index = -1]
        nat1 == OnBooster(nat, "SetModelUpdateExpanded")
        pair == Len(PyIndex(self.feature_groups, feature_group_index)) = 2
        t == IF pair THEN transposed_pair(self, model_update)
             ELSE [raised |-> "none", value |-> model_update]
    IN IF SingleClass(self)
       THEN Outcome([self1 EXCEPT !.feature_group_index = feature_group_index],
                    nat, "none", "None")
       ELSE IF ~PyIndexOk(self.feature_groups, feature_group_index)
       THEN Outcome(self1, nat, "IndexError", "None")
       ELSE IF t.raised # "none" THEN Outcome(self1, nat, t.raised, "None")
       ELSE IF t.value = NoTensor THEN Outcome(self1, nat, "AttributeError", "None")
       ELSE IF get_feature_group_shape(self, feature_group_index) # t.value.shape
       THEN Outcome(self1, nat, "ValueError", "None")
       ELSE IF return_code # 0
       THEN Called(self1, Outcome(self1, nat1, get_native_exception(return_code), "None"))
       ELSE Called(self1, Outcome([self1 EXCEPT !.feature_group_index = feature_group_index],
                                  EngineSet(nat1, feature_group_index, t.value),
                                  "none", "None"))

set_model_update_expanded(self, nat, feature_group_index, model_update, return_code) ==
    LET self1 == [self EXCEPT !.feature_group_index = -1]
        nat1 == OnBooster(nat, "SetModelUpdateExpanded")
        pair == Len(PyIndex(self.feature_groups, feature_group_index)) = 2
        t == IF pair THEN transposed_pair(self, model_update)
             ELSE [raised |-> "none", value |-> model_update]
    IN IF SingleClass(self)
       THEN IF model_update = NoTensor
            THEN Outcome([self1 EXCEPT !.feature_group_index = feature_group_index],
                         nat, "none", "None")
            ELSE Outcome(self1, nat, "ValueError", "None")
       ELSE IF ~PyIndexOk(self.feature_groups, feature_group_index)
       THEN Outcome(self1, nat, "IndexError", "None")
       ELSE IF t.raised # "none" THEN Outcome(self1, nat, t.raised, "None")
       ELSE IF t.value = NoTensor THEN Outcome(self1, nat, "AttributeError", "None")
       ELSE IF get_feature_group_shape(self, feature_group_index) # t.value.shape
       THEN Outcome(self1, nat, "ValueError", "None")
       ELSE IF return_code # 0
       THEN Called(self1, Outcome(self1, nat1, get_native_exception(return_code), "None"))
       ELSE Called(self1, Outcome([self1 EXCEPT !.feature_group_index = feature_group_index],
                                  EngineSet(nat1, feature_group_index, t.value),
                                  "none", "None"))

(***************************************************************************)
(* NativeEBMInteraction                                                    *)
(***************************************************************************)
NoDetector == [interaction_handle |-> "None"]

EngineCreateDetector(nat) == [nat EXCEPT !.detector = "live"]

EngineFreeDetector(nat) ==
    [nat EXCEPT !.detector = IF @ = "none" THEN "none" ELSE "freed"]

\* the checks of the arrays other than scores, in the constructor's order
interaction_inputs_error(a) ==
    IF Len(a.X) # 2 THEN "ValueError"
    ELSE IF Len(a.y) # 1 THEN "ValueError"
    ELSE IF a.X[1] # Len(a.features_categorical) THEN "ValueError"
    ELSE IF a.X[1] # Len(a.features_bin_count) THEN "ValueError"
    ELSE IF a.X[2] # a.y[1] THEN "ValueError"
    ELSE "none"

NativeEBMInteraction_init(nat, a, return_code) ==
    LET self0 == NoDetector
        nat1 == Count(nat, "CreateInteractionDetector")
        n_scores == get_count_scores_c(a.n_classes)
        scores == scores_checked(a.scores, a.y, n_scores)
    IN IF interaction_inputs_error(a) # "none"
       THEN Outcome(self0, nat, interaction_inputs_error(a), "None")
       ELSE IF scores.raised # "none" THEN Outcome(self0, nat, scores.raised, "None")
       ELSE IF a.model_type \notin {"classification", "regression"}
       THEN Outcome(self0, nat, "AttributeError", "None")
       ELSE IF return_code # 0
       THEN Handed(<<scores.value>>,
                   Outcome(self0, nat1, get_native_exception(return_code), "None"))
       ELSE Handed(<<scores.value>>,
                   Outcome([self0 EXCEPT !.interaction_handle = "H"],
                           EngineCreateDetector(nat1), "none", "None"))

NativeEBMInteraction_close(self, nat) ==
    Outcome(self, EngineFreeDetector(Count(nat, "FreeInteractionDetector")),
            "none", "None")

\* a deterministic engine: the score it computes for a feature tuple is a fixed
\* function of the data the detector was created on
EngineScore(nat, feature_index_tuple) == nat.score_of[feature_index_tuple]

\* a scoring call that frees the detector once it has the score
get_interaction_score_freeing(self, nat, feature_index_tuple, return_code, score) ==
    LET nat1 == OnDetector(nat, "CalculateInteractionScore")
    IN IF return_code # 0
       THEN Outcome(self, nat1, get_native_exception(return_code), "None")
       ELSE Outcome(self, EngineFreeDetector(Count(nat1, "FreeInteractionDetector")),
                    "none", score)

\* a scoring call that uses the handle up
get_interaction_score_consuming(self, nat, feature_index_tuple, return_code, score) ==
    LET nat1 == OnDetector(nat, "CalculateInteractionScore")
    IN IF return_code # 0
       THEN Outcome(self, nat1, get_native_exception(return_code), "None")
       ELSE Outcome([self EXCEPT !.interaction_handle = "None"], nat1, "none", score)

get_interaction_score(self, nat, feature_index_tuple, return_code, score) ==
    LET nat1 == OnDetector(nat, "CalculateInteractionScore")
    IN IF return_code # 0
       THEN Outcome(self, nat1, get_native_exception(return_code), "None")
       ELSE Outcome(self, nat1, "none", score)

(***************************************************************************)
(* Python builtins used by NativeHelper                                    *)
(***************************************************************************)
\* min(a, b): b when b < a, else a
PyMin(a, b) == IF b < a THEN b ELSE a

\* float addition with np.inf
FloatAdd(a, b) == IF a = Inf THEN Inf ELSE a + b

\* a descending sort that puts a later pair before the earlier pairs it ties with
RECURSIVE InsertBeforeTies(_, _)
InsertBeforeTies(sorted, x) ==
    IF sorted = <<>> THEN <<x>>
    ELSE IF Head(sorted)[2] > x[2]
    THEN <<Head(sorted)>> \o InsertBeforeTies(Tail(sorted), x)
    ELSE <<x>> \o sorted

\* sorted(pairs, key=lambda x: x[1], reverse=True): stable, descending by score
RECURSIVE InsertDesc(_, _)
InsertDesc(sorted, x) ==
    IF sorted = <<>> THEN <<x>>
    ELSE IF Head(sorted)[2] >= x[2] THEN <<Head(sorted)>> \o InsertDesc(Tail(sorted), x)
    ELSE <<x>> \o sorted

RECURSIVE SortedDesc(_)
SortedDesc(pairs) ==
    IF pairs = <<>> THEN <<>>
    ELSE InsertDesc(SortedDesc(SubSeq(pairs, 1, Len(pairs) - 1)), pairs[Len(pairs)])

(***************************************************************************)
(* Arguments, local variables and history of one entry-point call          *)
(***************************************************************************)
\* the feature schema of the runs: a 2-bin and a 4-bin feature
FeaturesBinCount == <<2, 4>>
FeatureGroupAt(i) == IF i % 3 = 0 THEN <<0, 1>> ELSE IF i % 3 = 1 THEN <<0>> ELSE <<1>>
\* two main effects and their pair
ScenarioGroups == <<<<0>>, <<1>>, <<0, 1>>>>
FeatureGroupLists ==
    {[i \in 1..n |-> FeatureGroupAt(i)] : n \in 0..MaxGroups} \cup {ScenarioGroups}
CandidateTuples == {<<0, 1>>, <<1, 0>>}
\* the n_interactions argument: fewer than the candidates of most runs
NInteractions == {0, 1}
BoostKinds == {<<"regression", 0>>, <<"classification", 1>>, <<"ranking", 0>>}

\* arrays are given by their shapes (features x samples for X), scores by None
\* or an ndarray
NoArgs ==
    [model_type |-> "None", n_classes |-> 0, features_categorical |-> <<>>,
     features_bin_count |-> <<>>, feature_groups |-> <<>>,
     X_train |-> <<0, 0>>, y_train |-> <<0>>, w_train |-> <<0>>, scores_train |-> NoTensor,
     X_val |-> <<0, 0>>, y_val |-> <<0>>, w_val |-> <<0>>, scores_val |-> NoTensor,
     X |-> <<0, 0>>, y |-> <<0>>, w |-> <<0>>, scores |-> NoTensor,
     max_rounds |-> 0, early_stopping_rounds |-> 0, early_stopping_tolerance |-> 0,
     iter_feature_groups |-> <<>>, n_interactions |-> 0]

\* data of the runs: 3 training samples of the two features, and a validation
\* set of 1 sample or of none; valid, or with a weight array of another shape
TrainData(a, w_train) ==
    [a EXCEPT !.features_categorical = [i \in 1..Len(a.features_bin_count) |-> i = 1],
              !.X_train = <<Len(a.features_bin_count), 3>>, !.y_train = <<3>>,
              !.w_train = w_train]
ValData(a, n_val) ==
    [a EXCEPT !.X_val = <<Len(a.features_bin_count), n_val>>, !.y_val = <<n_val>>,
              !.w_val = <<n_val>>]
InteractionData(a, w) ==
    [a EXCEPT !.features_categorical = [i \in 1..Len(a.features_bin_count) |-> i = 1],
              !.X = <<Len(a.features_bin_count), 3>>, !.y = <<3>>, !.w = w]
WeightShapes == {<<3>>, <<2>>}
InteractionXShapes == {<<2, 3>>, <<2, 2>>}

BoostArgs ==
    {ValData(TrainData([NoArgs EXCEPT !.model_type = k[1], !.n_classes = k[2],
                           !.features_bin_count = FeaturesBinCount,
                           !.feature_groups = fg, !.max_rounds = mr,
                           !.early_stopping_rounds = esr,
                           !.early_stopping_tolerance = est], w), n_val) :
        k \in BoostKinds, fg \in FeatureGroupLists, w \in WeightShapes, n_val \in 0..1,
        mr \in 0..MaxRounds, esr \in EarlyStoppingRounds, est \in Tolerances}

InteractionArgs ==
    {[InteractionData([NoArgs EXCEPT !.model_type = k[1], !.n_classes = k[2],
                          !.features_bin_count = FeaturesBinCount,
                          !.iter_feature_groups = c, !.n_interactions = n],
                      <<3>>) EXCEPT !.X = x] :
        k \in BoostKinds, x \in InteractionXShapes,
        c \in SeqsUpTo(CandidateTuples, MaxCandidates), n \in NInteractions}

\* the locals with min_metric starting at 0
NoLocalsMetricZero ==
    [min_metric |-> 0, episode_index |-> 0, no_change_run_length |-> 0,
     bp_metric |-> Inf, feature_group_index |-> 0, range_pos |-> 0, group_pos |-> 0,
     model_update |-> "unbound", interaction_scores |-> <<>>]

NoLocals ==
    [min_metric |-> Inf, episode_index |-> 0, no_change_run_length |-> 0,
     bp_metric |-> Inf, feature_group_index |-> 0, range_pos |-> 0, group_pos |-> 0,
     model_update |-> "unbound", interaction_scores |-> <<>>]

NoHist ==
    [open_failed |-> FALSE,
     handed |-> <<>>,                     \* score arrays handed to the native create
     native_errors |-> 0,                 \* native calls that returned non-zero
     error_calls |-> [f \in NativeFunctions |-> 0],  \* calls made up to the last
                                          \* of them, that one included
     rounds |-> 0,                        \* sweeps completed, bookkeeping included
     round_mins |-> <<>>,                 \* min_metric at the end of every round
     steps |-> 0,                         \* metrics returned by apply_model_update
     first_seen |-> [m \in Metrics |-> 0],\* the step that first returned metric m
     get_best_model |-> 0,                \* calls of the method
     get_current_model |-> 0,
     last |-> [op |-> "none", arg |-> -1, before |-> -1, raised |-> "none",
              at_call |-> {},          \* the last method call of a session,
              calls |-> {},            \* the native functions it called,
              given |-> NoTensor,      \* its tensor argument,
              tensor |-> NoTensor,     \* the tensor it returned
              model |-> <<>>,          \* the model it returned
              cuts |-> <<>>],          \* the cut lists it returned
     best_seen |-> <<>>,                  \* get_best_model results since the last
                                          \* generate/apply call
     scored |-> <<>>,                     \* get_interaction_score calls that returned
     stagings |-> 0,                      \* generate/set calls that staged an update
     ops |-> 0]

(***************************************************************************)
(* NativeHelper.cyclic_gradient_boost                                      *)
(***************************************************************************)
\* the history after a method call that made a native call answered return_code
NoteReturnCode(h, o, return_code) ==
    IF return_code # 0 /\ o.native.calls # native.calls
    THEN [h EXCEPT !.native_errors = @ + 1, !.error_calls = o.native.calls]
    ELSE h

\* with closing(NativeEBMBooster(...)): the constructor runs before the with block
\* is entered, so its exception propagates with no close()
after_open_closing(raised, next) == IF raised = "none" THEN next ELSE "exit"
after_open(raised, next) == IF raised = "none" THEN next ELSE "raised"

\* an exception that leaves the with block and goes no further
WithExitSwallowing(raised) == /\ pc' = "exit"
                              /\ exc' = "none"

\* leaving the with block: closing() calls close() on return and on exception
WithExit(raised) == /\ pc' = "exit"
                    /\ exc' = raised

\* a sweep that ends after its first feature group
NextGroupFirstOnly(l) ==
    IF l.group_pos < Len(args.feature_groups) /\ l.group_pos < 1
    THEN [next |-> "generate",
          locals |-> [l EXCEPT !.feature_group_index = l.group_pos, !.group_pos = @ + 1]]
    ELSE [next |-> "check", locals |-> l]

\* for feature_group_index in range(len(feature_groups)): next iteration or loop end
NextGroup(l) ==
    IF l.group_pos < Len(args.feature_groups)
    THEN [next |-> "generate",
          locals |-> [l EXCEPT !.feature_group_index = l.group_pos, !.group_pos = @ + 1]]
    ELSE [next |-> "check", locals |-> l]

BoostOpen ==
    /\ entry = "boost" /\ pc = "call"
    /\ \E return_code \in ReturnCodes :
         LET o == NativeEBMBooster_init(native, args, return_code)
         IN /\ booster' = o.self
            /\ native' = o.native
            /\ exc' = o.raised
            /\ pc' = after_open(o.raised, "for_episode")
            /\ locals' = [locals EXCEPT !.no_change_run_length = 0, !.bp_metric = Inf]
            /\ hist' = [NoteReturnCode(hist, o, return_code)
                           EXCEPT !.open_failed = (o.raised # "none")]
    /\ UNCHANGED <<entry, args, detector, result>>

\* for episode_index in range(max_rounds)
ForEpisode ==
    /\ entry = "boost" /\ pc = "for_episode"
    /\ IF locals.range_pos < args.max_rounds
       THEN LET n == NextGroup([locals EXCEPT !.episode_index = locals.range_pos,
                                              !.range_pos = @ + 1, !.group_pos = 0])
            IN /\ locals' = n.locals
               /\ pc' = n.next
       ELSE /\ pc' = "select"
            /\ UNCHANGED locals
    /\ UNCHANGED <<entry, args, booster, detector, native, exc, result, hist>>

BoostGenerate ==
    /\ entry = "boost" /\ pc = "generate"
    /\ \E return_code \in EngineIndexCodes(booster, locals.feature_group_index) :
         LET o == generate_model_update(booster, native, locals.feature_group_index,
                                        return_code)
         IN /\ booster' = o.self
            /\ native' = o.native
            /\ hist' = NoteReturnCode(hist, o, return_code)
            /\ IF o.raised = "none"
               THEN pc' = "apply" /\ UNCHANGED exc
               ELSE WithExit(o.raised)
    /\ UNCHANGED <<entry, args, detector, locals, result>>

update_min_metric_last(l, curr_metric) == [l EXCEPT !.min_metric = curr_metric]
\* min_metric = min(curr_metric, min_metric)
update_min_metric(l, curr_metric) ==
    [l EXCEPT !.min_metric = PyMin(curr_metric, l.min_metric)]

RecordMetric(h, metric) ==
    [h EXCEPT !.steps = @ + 1,
              !.first_seen[metric] = IF @ = 0 THEN h.steps + 1 ELSE @]

BoostApply ==
    /\ entry = "boost" /\ pc = "apply"
    /\ \E return_code \in ReturnCodes, metric \in Metrics :
         LET o == apply_model_update(booster, native, return_code, metric)
         IN /\ booster' = o.self
            /\ native' = o.native
            /\ IF o.raised = "none"
               THEN LET n == NextGroup(update_min_metric(locals, o.value))
                    IN /\ locals' = n.locals
                       /\ pc' = n.next
                       /\ hist' = RecordMetric(hist, o.value)
                       /\ UNCHANGED exc
               ELSE /\ WithExit(o.raised)
                    /\ hist' = NoteReturnCode(hist, o, return_code)
                    /\ UNCHANGED locals
    /\ UNCHANGED <<entry, args, detector, result>>

early_stopping_unguarded(l, early_stopping_rounds, early_stopping_tolerance) ==
    LET bp_metric == IF l.no_change_run_length = 0 THEN l.min_metric ELSE l.bp_metric
        no_change_run_length ==
            IF FloatAdd(l.min_metric, early_stopping_tolerance) < bp_metric
            THEN 0 ELSE l.no_change_run_length + 1
    IN [locals |-> [l EXCEPT !.bp_metric = bp_metric,
                             !.no_change_run_length = no_change_run_length],
        brk |-> no_change_run_length >= early_stopping_rounds]

\* the bookkeeping with the comparison made before the baseline is set
early_stopping_baseline_after(l, early_stopping_rounds, early_stopping_tolerance) ==
    LET no_change_run_length ==
            IF FloatAdd(l.min_metric, early_stopping_tolerance) < l.bp_metric
            THEN 0 ELSE l.no_change_run_length + 1
        bp_metric == IF no_change_run_length = 0 THEN l.min_metric ELSE l.bp_metric
    IN [locals |-> [l EXCEPT !.bp_metric = bp_metric,
                             !.no_change_run_length = no_change_run_length],
        brk |-> early_stopping_rounds >= 0
                /\ no_change_run_length >= early_stopping_rounds]

\* the bookkeeping with the tolerance taken off min_metric
early_stopping_tolerance_subtracted(l, early_stopping_rounds, early_stopping_tolerance) ==
    LET bp_metric == IF l.no_change_run_length = 0 THEN l.min_metric ELSE l.bp_metric
        no_change_run_length ==
            IF FloatAdd(l.min_metric, 0 - early_stopping_tolerance) < bp_metric
            THEN 0 ELSE l.no_change_run_length + 1
    IN [locals |-> [l EXCEPT !.bp_metric = bp_metric,
                             !.no_change_run_length = no_change_run_length],
        brk |-> early_stopping_rounds >= 0
                /\ no_change_run_length >= early_stopping_rounds]

\* the bookkeeping with a tie counted as an improvement
early_stopping_on_ties(l, early_stopping_rounds, early_stopping_tolerance) ==
    LET bp_metric == IF l.no_change_run_length = 0 THEN l.min_metric ELSE l.bp_metric
        no_change_run_length ==
            IF FloatAdd(l.min_metric, early_stopping_tolerance) <= bp_metric
            THEN 0 ELSE l.no_change_run_length + 1
    IN [locals |-> [l EXCEPT !.bp_metric = bp_metric,
                             !.no_change_run_length = no_change_run_length],
        brk |-> early_stopping_rounds >= 0
                /\ no_change_run_length >= early_stopping_rounds]

\* the early-stopping bookkeeping at the end of a round; brk: the loop breaks
early_stopping(l, early_stopping_rounds, early_stopping_tolerance) ==
    LET bp_metric == IF l.no_change_run_length = 0 THEN l.min_metric ELSE l.bp_metric
        no_change_run_length ==
            IF FloatAdd(l.min_metric, early_stopping_tolerance) < bp_metric
            THEN 0 ELSE l.no_change_run_length + 1
    IN [locals |-> [l EXCEPT !.bp_metric = bp_metric,
                             !.no_change_run_length = no_change_run_length],
        brk |-> early_stopping_rounds >= 0
                /\ no_change_run_length >= early_stopping_rounds]

EarlyStoppingCheck ==
    /\ entry = "boost" /\ pc = "check"
    /\ LET e == early_stopping(locals, args.early_stopping_rounds,
                               args.early_stopping_tolerance)
       IN /\ locals' = e.locals
          /\ pc' = IF e.brk THEN "select" ELSE "for_episode"
    /\ hist' = [hist EXCEPT !.rounds = @ + 1,
                            !.round_mins = Append(@, locals.min_metric)]
    /\ UNCHANGED <<entry, args, booster, detector, native, exc, result>>

reads_current_model_swapped(a) == a.X_val[2] # 0
reads_current_model_always(a) == TRUE
\* which model the run reads after the loop: X_val.shape[1] == 0
reads_current_model(a) == a.X_val[2] = 0

SelectModel ==
    /\ entry = "boost" /\ pc = "select"
    /\ \E fail_at \in 0..Len(args.feature_groups), return_code \in ReturnCodes \ {0} :
         LET current == reads_current_model(args)
             o == IF current
                  THEN get_current_model(booster, native, fail_at, return_code)
                  ELSE get_best_model(booster, native, fail_at, return_code)
         IN /\ booster' = o.self
            /\ native' = o.native
            /\ hist' = LET h == NoteReturnCode(hist, o, IF fail_at > 0 THEN return_code
                                                         ELSE 0)
                       IN IF current THEN [h EXCEPT !.get_current_model = @ + 1]
                          ELSE [h EXCEPT !.get_best_model = @ + 1]
            /\ locals' = IF o.raised = "none" THEN [locals EXCEPT !.model_update = o.value]
                         ELSE locals
            /\ WithExit(o.raised)
    /\ UNCHANGED <<entry, args, detector, result>>

\* return model_update, min_metric, episode_index
boost_result(l) == <<l.model_update, l.min_metric, l.episode_index>>

closes_on_return_only(raised) == raised = "none"
closes_on_exception_only(raised) == raised # "none"
\* contextlib.closing: close() runs when the with block is left, however it is left
closes_on(raised) == TRUE

BoostExit ==
    /\ entry = "boost" /\ pc = "exit"
    /\ LET o == NativeEBMBooster_close(booster, native)
       IN IF closes_on(exc)
          THEN booster' = o.self /\ native' = o.native
          ELSE UNCHANGED <<booster, native>>
    /\ IF exc = "none"
       THEN pc' = "returned" /\ result' = boost_result(locals)
       ELSE pc' = "raised" /\ UNCHANGED result
    /\ UNCHANGED <<entry, args, detector, locals, exc, hist>>

(***************************************************************************)
(* NativeHelper.get_interactions                                           *)
(***************************************************************************)
\* for feature_group in iter_feature_groups: next iteration or loop end
NextCandidate(l) ==
    IF l.range_pos < Len(args.iter_feature_groups) THEN "score" ELSE "exit"

InteractionOpen ==
    /\ entry = "interactions" /\ pc = "call"
    /\ \E return_code \in ReturnCodes :
         LET o == NativeEBMInteraction_init(native, args, return_code)
         IN /\ detector' = o.self
            /\ native' = o.native
            /\ exc' = o.raised
            /\ pc' = after_open(o.raised, NextCandidate(locals))
            /\ hist' = [NoteReturnCode(hist, o, return_code)
                           EXCEPT !.open_failed = (o.raised # "none")]
    /\ UNCHANGED <<entry, args, booster, locals, result>>

InteractionScore ==
    /\ entry = "interactions" /\ pc = "score"
    /\ \E return_code \in ReturnCodes, score \in Scores :
         LET feature_group == args.iter_feature_groups[locals.range_pos + 1]
             o == get_interaction_score(detector, native, feature_group, return_code,
                                        score)
             l == [locals EXCEPT !.range_pos = @ + 1,
                                 !.interaction_scores = Append(@, <<feature_group, o.value>>)]
         IN /\ detector' = o.self
            /\ native' = o.native
            /\ hist' = NoteReturnCode(hist, o, return_code)
            /\ IF o.raised = "none"
               THEN locals' = l /\ pc' = NextCandidate(l) /\ UNCHANGED exc
               ELSE WithExit(o.raised) /\ UNCHANGED locals
    /\ UNCHANGED <<entry, args, booster, result>>

\* a result cut to the n_interactions best candidates
interactions_result_truncating(l) ==
    LET ranked_scores == SortedDesc(l.interaction_scores)
        n == IF args.n_interactions < Len(ranked_scores) THEN args.n_interactions
             ELSE Len(ranked_scores)
        final_ranked_scores == SubSeq(ranked_scores, 1, n)
    IN << [i \in 1..Len(final_ranked_scores) |-> final_ranked_scores[i][1]],
          [i \in 1..Len(final_ranked_scores) |-> final_ranked_scores[i][2]] >>

\* ranked_scores ... return final_indices, final_scores
interactions_result(l) ==
    LET final_ranked_scores == SortedDesc(l.interaction_scores)
    IN << [i \in 1..Len(final_ranked_scores) |-> final_ranked_scores[i][1]],
          [i \in 1..Len(final_ranked_scores) |-> final_ranked_scores[i][2]] >>

InteractionExit ==
    /\ entry = "interactions" /\ pc = "exit"
    /\ LET o == NativeEBMInteraction_close(detector, native)
       IN IF closes_on(exc)
          THEN detector' = o.self /\ native' = o.native
          ELSE UNCHANGED <<detector, native>>
    /\ IF exc = "none"
       THEN pc' = "returned" /\ result' = interactions_result(locals)
       ELSE pc' = "raised" /\ UNCHANGED result
    /\ UNCHANGED <<entry, args, booster, locals, exc, hist>>

(***************************************************************************)
(* Spec: one call of an entry point                                        *)
(***************************************************************************)
Init ==
    /\ entry \in {"boost", "interactions"}
    /\ args \in IF entry = "boost" THEN BoostArgs ELSE InteractionArgs
    /\ pc = "call"
    /\ booster = NoBooster
    /\ detector = NoDetector
    /\ native = NativeInit
    /\ locals = NoLocals
    /\ exc = "none"
    /\ result = "none"
    /\ hist = NoHist

Next ==
    \/ BoostOpen
    \/ ForEpisode
    \/ BoostGenerate
    \/ BoostApply
    \/ EarlyStoppingCheck
    \/ SelectModel
    \/ BoostExit
    \/ InteractionOpen
    \/ InteractionScore
    \/ InteractionExit

Spec == Init /\ [][Next]_vars

(***************************************************************************)
(* SpecSession: a caller constructs one NativeEBMBooster and calls its     *)
(* methods in any order, with any index and tensor arguments, then closes  *)
(* it.  At most MaxOps method calls are made between open and close.       *)
(***************************************************************************)
SessionKinds == {<<"regression", 0>>, <<"classification", 1>>,
                 <<"classification", 2>>, <<"classification", 3>>}
\* a third feature of 3 bins, and a group of each arity up to three
SessionBinCount == <<2, 4, 3>>
SessionGroups == <<<<0>>, <<1>>, <<0, 1>>, <<0, 1, 2>>>>
SessionArgs ==
    {ValData(TrainData([NoArgs EXCEPT !.model_type = k[1], !.n_classes = k[2],
                           !.features_bin_count = SessionBinCount,
                           !.feature_groups = SessionGroups], w), 1) :
        k \in SessionKinds, w \in WeightShapes}
\* index arguments: every feature group, Python's negative indexes, and beyond
\* cut counts the engine may report for a dimension: none, and two, which is
\* above, at and below what the buffers of 2, 3 and 4 bins hold
CutCounts == {0, 2}
IndexArgs == {0 - Len(SessionGroups) - 1, -1} \cup 0..Len(SessionGroups)
\* tensor arguments: None, and for each shape the tensor whose elements are
\* numbered in row-major order
Iota(shape) == Tensor(shape, [i \in 1..Product(shape) |-> i])
TensorShapes == {<<2>>, <<2, 4>>, <<4, 2>>, <<2, 3>>, <<2, 4, 3>>}
TensorArgs == {NoTensor} \cup {Iota(sh) : sh \in TensorShapes}

CallsMade(before, after) == {f \in NativeFunctions : after.calls[f] > before.calls[f]}

\* the bookkeeping of one method call made by the caller
Did(h, op, arg, given, o, staged) ==
    [h EXCEPT !.last = [op |-> op, arg |-> arg, before |-> booster.feature_group_index,
                        raised |-> o.raised, at_call |-> o.at_call,
                        calls |-> CallsMade(native, o.native),
                        given |-> given,
                        tensor |-> IF op = "get" /\ o.raised = "none" THEN o.value
                                   ELSE NoTensor,
                        model |-> IF op = "get_best_model" /\ o.raised = "none"
                                  THEN o.value ELSE <<>>,
                        cuts |-> IF op = "get_cuts" /\ o.raised = "none"
                                 THEN o.value ELSE <<>>],
              !.best_seen = IF op \in {"generate", "apply"} THEN <<>>
                            ELSE IF op = "get_best_model" /\ o.raised = "none"
                            THEN Append(@, o.value)
                            ELSE @,
              !.ops = @ + 1,
              !.stagings = @ + (IF staged /\ o.raised = "none" THEN 1 ELSE 0)]

SessionCall(op, arg, given, o, staged) ==
    /\ booster' = o.self
    /\ native' = o.native
    /\ hist' = Did(hist, op, arg, given, o, staged)
    /\ UNCHANGED <<entry, pc, args, detector, locals, exc, result>>

SessionOpen ==
    /\ entry = "session" /\ pc = "new"
    /\ \E return_code \in ReturnCodes :
         LET o == NativeEBMBooster_init(native, args, return_code)
         IN /\ booster' = o.self
            /\ native' = o.native
            /\ exc' = o.raised
            /\ pc' = IF o.raised = "none" THEN "open" ELSE "failed"
            /\ hist' = [hist EXCEPT !.open_failed = (o.raised # "none")]
    /\ UNCHANGED <<entry, args, detector, locals, result>>

SessionGenerate ==
    /\ entry = "session" /\ pc = "open" /\ hist.ops < MaxOps
    /\ \E g \in IndexArgs : \E return_code \in EngineIndexCodes(booster, g) :
         SessionCall("generate", g, NoTensor,
                     generate_model_update(booster, native, g, return_code), TRUE)

SessionApply ==
    /\ entry = "session" /\ pc = "open" /\ hist.ops < MaxOps
    /\ \E return_code \in ReturnCodes, metric \in Metrics :
         SessionCall("apply", -1, NoTensor,
                     apply_model_update(booster, native, return_code, metric), FALSE)

SessionSet ==
    /\ entry = "session" /\ pc = "open" /\ hist.ops < MaxOps
    /\ \E g \in IndexArgs, model_update \in TensorArgs :
         \E return_code \in EngineIndexCodes(booster, g) :
            SessionCall("set", g, model_update,
                        set_model_update_expanded(booster, native, g, model_update,
                                                  return_code),
                        TRUE)

SessionGet ==
    /\ entry = "session" /\ pc = "open" /\ hist.ops < MaxOps
    /\ \E return_code \in ReturnCodes :
         SessionCall("get", -1, NoTensor,
                     get_model_update_expanded(booster, native, return_code), FALSE)

\* the dimensions of the group the staged index names
StagedDimensions(self) ==
    IF 0 <= self.feature_group_index
       /\ PyIndexOk(self.feature_groups, self.feature_group_index)
    THEN Len(PyIndex(self.feature_groups, self.feature_group_index))
    ELSE 0

SessionGetCuts ==
    /\ entry = "session" /\ pc = "open" /\ hist.ops < MaxOps
    /\ \E counts \in [1..StagedDimensions(booster) -> CutCounts],
          fail_at \in 0..StagedDimensions(booster),
          return_code \in ReturnCodes \ {0} :
         SessionCall("get_cuts", -1, NoTensor,
                     get_model_update_cuts(booster, native, counts, fail_at, return_code),
                     FALSE)

SessionGetBest ==
    /\ entry = "session" /\ pc = "open" /\ hist.ops < MaxOps
    /\ \E fail_at \in 0..1, return_code \in ReturnCodes \ {0} :
         SessionCall("get_best_model", -1, NoTensor,
                     get_best_model(booster, native, fail_at, return_code), FALSE)

SessionClose ==
    /\ entry = "session" /\ pc = "open"
    /\ LET o == NativeEBMBooster_close(booster, native)
       IN /\ booster' = o.self
          /\ native' = o.native
    /\ pc' = "closed"
    /\ UNCHANGED <<entry, args, detector, locals, exc, result, hist>>

SessionInit ==
    /\ entry = "session"
    /\ args \in SessionArgs
    /\ pc = "new"
    /\ booster = NoBooster
    /\ detector = NoDetector
    /\ native = NativeInit
    /\ locals = NoLocals
    /\ exc = "none"
    /\ result = "none"
    /\ hist = NoHist

SessionNext ==
    \/ SessionOpen
    \/ SessionGenerate
    \/ SessionApply
    \/ SessionSet
    \/ SessionGet
    \/ SessionGetCuts
    \/ SessionGetBest
    \/ SessionClose

SpecSession == SessionInit /\ [][SessionNext]_vars

(***************************************************************************)
(* SpecOpen: one constructor call, NativeEBMBooster(...) or                *)
(* NativeEBMInteraction(...), on arrays of any of the shapes below.        *)
(***************************************************************************)
OpenKinds == {<<"regression", 0>>, <<"classification", 2>>, <<"classification", 3>>}
CategoricalArgs == {<<TRUE, FALSE>>, <<TRUE>>}
BinCountArgs == {<<2, 4>>, <<2>>}
XTrainShapes == {<<2, 3>>, <<1, 3>>, <<2, 2>>}
YTrainShapes == {<<3>>, <<2>>}
WTrainShapes == {<<3>>, <<2>>, <<3, 1>>}
XValShapes == {<<2, 1>>, <<1, 1>>, <<2, 0>>}
YValShapes == {<<1>>, <<0>>}
WValShapes == {<<1>>, <<0>>}
ScoresTrainArgs == {NoTensor} \cup {NdArray(sh) : sh \in {<<3>>, <<2>>, <<3, 3>>, <<3, 2>>}}
ScoresValArgs == {NoTensor} \cup {NdArray(sh) : sh \in {<<1>>, <<1, 3>>}}

OpenBoosterArgs ==
    {[NoArgs EXCEPT !.model_type = k[1], !.n_classes = k[2],
                    !.features_categorical = fc, !.features_bin_count = fb,
                    !.feature_groups = <<<<0>>>>,
                    !.X_train = xt, !.y_train = yt, !.w_train = wt, !.scores_train = st,
                    !.X_val = xv, !.y_val = yv, !.w_val = wv, !.scores_val = sv] :
        k \in OpenKinds, fc \in CategoricalArgs, fb \in BinCountArgs,
        xt \in XTrainShapes, yt \in YTrainShapes, wt \in WTrainShapes,
        st \in ScoresTrainArgs, xv \in XValShapes, yv \in YValShapes,
        wv \in WValShapes, sv \in ScoresValArgs}

OpenInteractionArgs ==
    {[NoArgs EXCEPT !.model_type = k[1], !.n_classes = k[2],
                    !.features_categorical = fc, !.features_bin_count = fb,
                    !.X = x, !.y = y, !.w = w, !.scores = sc] :
        k \in OpenKinds, fc \in CategoricalArgs, fb \in BinCountArgs,
        x \in XTrainShapes, y \in YTrainShapes, w \in WTrainShapes,
        sc \in ScoresTrainArgs}

Opened(o) ==
    /\ native' = o.native
    /\ exc' = o.raised
    /\ pc' = IF o.raised = "none" THEN "open" ELSE "failed"
    /\ hist' = [hist EXCEPT !.open_failed = (o.raised # "none"), !.handed = o.handed]

OpenBooster ==
    /\ entry = "open_booster" /\ pc = "new"
    /\ \E return_code \in ReturnCodes :
         LET o == NativeEBMBooster_init(native, args, return_code)
         IN booster' = o.self /\ Opened(o)
    /\ UNCHANGED <<entry, args, detector, locals, result>>

OpenInteraction ==
    /\ entry = "open_interaction" /\ pc = "new"
    /\ \E return_code \in ReturnCodes :
         LET o == NativeEBMInteraction_init(native, args, return_code)
         IN detector' = o.self /\ Opened(o)
    /\ UNCHANGED <<entry, args, booster, locals, result>>

OpenInit ==
    /\ entry \in {"open_booster", "open_interaction"}
    /\ args \in IF entry = "open_booster" THEN OpenBoosterArgs ELSE OpenInteractionArgs
    /\ pc = "new"
    /\ booster = NoBooster
    /\ detector = NoDetector
    /\ native = NativeInit
    /\ locals = NoLocals
    /\ exc = "none"
    /\ result = "none"
    /\ hist = NoHist

OpenNext ==
    \/ OpenBooster
    \/ OpenInteraction

SpecOpen == OpenInit /\ [][OpenNext]_vars

(***************************************************************************)
(* SpecScores: a caller constructs one NativeEBMInteraction on an engine    *)
(* that computes scores deterministically, and scores feature tuples in    *)
(* any order, at most MaxOps calls, then closes it.                         *)
(***************************************************************************)
ScoreTuples == {<<0>>, <<1>>, <<0, 1>>, <<1, 0>>}
ScoresArgs ==
    {InteractionData([NoArgs EXCEPT !.model_type = k[1], !.n_classes = k[2],
                         !.features_bin_count = FeaturesBinCount], <<3>>) :
        k \in BoostKinds}

ScoresOpen ==
    /\ entry = "scores" /\ pc = "new"
    /\ \E return_code \in ReturnCodes :
         LET o == NativeEBMInteraction_init(native, args, return_code)
         IN /\ detector' = o.self
            /\ native' = o.native
            /\ exc' = o.raised
            /\ pc' = IF o.raised = "none" THEN "open" ELSE "failed"
            /\ hist' = [hist EXCEPT !.open_failed = (o.raised # "none")]
    /\ UNCHANGED <<entry, args, booster, locals, result>>

ScoresScore ==
    /\ entry = "scores" /\ pc = "open" /\ hist.ops < MaxOps
    /\ \E feature_index_tuple \in ScoreTuples, return_code \in ReturnCodes :
         LET o == get_interaction_score(detector, native, feature_index_tuple,
                                        return_code,
                                        EngineScore(native, feature_index_tuple))
         IN /\ detector' = o.self
            /\ native' = o.native
            /\ exc' = o.raised
            /\ result' = o.value
            /\ hist' = [hist EXCEPT
                           !.ops = @ + 1,
                           !.scored = IF o.raised = "none"
                                      THEN Append(@, [feature_index_tuple |-> feature_index_tuple,
                                                      score |-> o.value])
                                      ELSE @]
    /\ UNCHANGED <<entry, pc, args, booster, locals>>

ScoresClose ==
    /\ entry = "scores" /\ pc = "open"
    /\ LET o == NativeEBMInteraction_close(detector, native)
       IN /\ detector' = o.self
          /\ native' = o.native
    /\ pc' = "closed"
    /\ UNCHANGED <<entry, args, booster, locals, exc, result, hist>>

ScoresInit ==
    /\ entry = "scores"
    /\ args \in ScoresArgs
    /\ pc = "new"
    /\ booster = NoBooster
    /\ detector = NoDetector
    /\ native \in {[NativeInit EXCEPT !.score_of = f] : f \in [ScoreTuples -> Scores]}
    /\ locals = NoLocals
    /\ exc = "none"
    /\ result = "none"
    /\ hist = NoHist

ScoresNext ==
    \/ ScoresOpen
    \/ ScoresScore
    \/ ScoresClose

SpecScores == ScoresInit /\ [][ScoresNext]_vars

(***************************************************************************)
(* SpecSingleton: threads that each open a session and so each call        *)
(* Native.get_native_singleton.  The method takes no lock, so another       *)
(* thread can run between any two of its statements; one action per         *)
(* statement that reads or writes Native._native.                           *)
(***************************************************************************)
Threads == 1..MaxThreads

\* if Native._native is None
SingletonTest(t) ==
    /\ pc[t] = "call"
    /\ pc' = [pc EXCEPT ![t] = IF native.singleton = 0 THEN "initialize" ELSE "return"]
    /\ UNCHANGED <<entry, args, booster, detector, native, locals, exc, result, hist>>

\* native = Native(); native._initialize(is_debug=is_debug)
SingletonInitialize(t) ==
    /\ pc[t] = "initialize"
    /\ \E loaded \in BOOLEAN :
         /\ native' = Native_initialize(native, loaded)
         /\ locals' = [locals EXCEPT ![t] = IF loaded THEN native.loads + 1 ELSE @]
         /\ pc' = [pc EXCEPT ![t] = IF loaded THEN "assign" ELSE "raised"]
    /\ UNCHANGED <<entry, args, booster, detector, exc, result, hist>>

\* Native._native = native
SingletonAssign(t) ==
    /\ pc[t] = "assign"
    /\ native' = [native EXCEPT !.singleton = locals[t]]
    /\ pc' = [pc EXCEPT ![t] = "return"]
    /\ UNCHANGED <<entry, args, booster, detector, locals, exc, result, hist>>

\* return Native._native
SingletonReturn(t) ==
    /\ pc[t] = "return"
    /\ result' = [result EXCEPT ![t] = native.singleton]
    /\ pc' = [pc EXCEPT ![t] = "done"]
    /\ UNCHANGED <<entry, args, booster, detector, native, locals, exc, hist>>

SingletonInit ==
    /\ entry = "get_native_singleton"
    /\ args = NoArgs
    /\ pc = [t \in Threads |-> "call"]
    /\ booster = NoBooster
    /\ detector = NoDetector
    /\ native = NoNative
    /\ locals = [t \in Threads |-> 0]
    /\ exc = "none"
    /\ result = [t \in Threads |-> 0]
    /\ hist = NoHist

SingletonNext ==
    \E t \in Threads :
        \/ SingletonTest(t)
        \/ SingletonInitialize(t)
        \/ SingletonAssign(t)
        \/ SingletonReturn(t)

SpecSingleton == SingletonInit /\ [][SingletonNext]_vars

(***************************************************************************)
(* SpecNative: one thread using the Native class: it obtains the binding,   *)
(* sets the logging level and builds errors from return codes, at most      *)
(* MaxOps calls in any order.                                               *)
(***************************************************************************)
\* levels a caller passes to set_logging: the keys of level_dict, None, and
\* a name that is no key
LevelArgs == LoggingLevels \cup LevelNames \cup {"None", "TRACE"}
\* return codes _get_native_exception is called with: every non-zero code
\* around the listed ones
ErrorCodes == (-1..20) \ {0}

NativeDid(h, op, arg, raised) ==
    [h EXCEPT !.ops = @ + 1,
              !.last = [@ EXCEPT !.op = op, !.arg = arg, !.raised = raised,
                                 !.before = native.singleton]]

NativeGetSingleton ==
    /\ entry = "native" /\ hist.ops < MaxOps
    /\ \E loaded \in BOOLEAN :
         LET o == get_native_singleton(native, loaded)
         IN /\ native' = o.native
            /\ result' = o.value
            /\ pc' = IF o.native.singleton # 0 THEN "loaded" ELSE "new"
            /\ exc' = o.raised
            /\ hist' = NativeDid(hist, "get_native_singleton", <<>>, o.raised)
    /\ UNCHANGED <<entry, args, booster, detector, locals>>

NativeSetLogging ==
    /\ entry = "native" /\ pc = "loaded" /\ hist.ops < MaxOps
    /\ \E level \in LevelArgs, effective_level \in LoggingLevels :
         LET o == set_logging(native, level, effective_level)
         IN /\ level # "None" => effective_level = "logging.WARNING"
            /\ native' = o.native
            /\ exc' = o.raised
            /\ hist' = NativeDid(hist, "set_logging",
                                 IF level = "None" THEN <<level, effective_level>>
                                 ELSE <<level>>, o.raised)
    /\ result' = "None"
    /\ UNCHANGED <<entry, pc, args, booster, detector, locals>>

NativeGetException ==
    /\ entry = "native" /\ hist.ops < MaxOps
    /\ \E error_code \in ErrorCodes, native_function \in NativeFunctions :
         /\ result' = Native_get_native_exception(error_code, native_function)
         /\ hist' = NativeDid(hist, "get_native_exception",
                              <<error_code, native_function>>, "none")
    /\ exc' = "none"
    /\ UNCHANGED <<entry, pc, args, booster, detector, native, locals>>

NativeClassInit ==
    /\ entry = "native"
    /\ args = NoArgs
    /\ pc = "new"
    /\ booster = NoBooster
    /\ detector = NoDetector
    /\ native = NoNative
    /\ locals = NoLocals
    /\ exc = "none"
    /\ result = "None"
    /\ hist = NoHist

NativeNext ==
    \/ NativeGetSingleton
    \/ NativeSetLogging
    \/ NativeGetException

SpecNative == NativeClassInit /\ [][NativeNext]_vars

(***************************************************************************)
(* Properties of cyclic_gradient_boost and get_interactions (Spec)         *)
(***************************************************************************)
Calls(f) == native.calls[f]
Boosting == entry = "boost"
Ended == pc \in {"returned", "raised"}
ModelReads == hist.get_best_model + hist.get_current_model
\* the boosting loop ran to its end (max_rounds or break) without an exception
LoopEnded == Boosting /\ (pc = "select" \/ ModelReads > 0)
BoosterCreated == booster.booster_handle # "None"
\* the run was given an empty validation set
ValEmpty == args.y_val = <<0>>
MetricsSeen == {m \in Metrics : hist.first_seen[m] > 0}
MinSeen == SetMin(MetricsSeen \cup {Inf})

\* C1: once the booster is created, FreeBooster is called exactly once on every
\* exit path of cyclic_gradient_boost (return, early stop, exception), and not
\* before the exit.
C1_FreeBoosterOncePerExit ==
    (Boosting /\ BoosterCreated) =>
        /\ Ended => Calls("FreeBooster") = 1
        /\ ~Ended => Calls("FreeBooster") = 0

C1_Witness ==
    /\ Boosting /\ BoosterCreated /\ pc = "raised"
    /\ hist.rounds >= 1 /\ Calls("ApplyModelUpdate") > hist.steps
    /\ Calls("FreeBooster") = 1

\* C2: when opening the session fails, by validation or by the native create
\* call, the entry point raises with no generate, apply, score or model-read
\* call and no native free; a free only ever follows a successful create.
C2_FailedOpenCallsNothing ==
    /\ hist.open_failed =>
          /\ pc = "raised" /\ exc # "none" /\ result = "none"
          /\ booster.booster_handle = "None" /\ detector.interaction_handle = "None"
          /\ ModelReads = 0
          /\ \A f \in NativeFunctions \ {"CreateBooster", "CreateInteractionDetector"} :
                Calls(f) = 0
    /\ Calls("FreeBooster") > 0 => native.booster = "freed"
    /\ Calls("FreeInteractionDetector") > 0 => native.detector = "freed"

C2_Witness ==
    /\ entry = "interactions" /\ hist.open_failed /\ pc = "raised"
    /\ Calls("CreateInteractionDetector") = 1
    /\ Len(args.iter_feature_groups) > 0

\* C3: with early_stopping_rounds = R >= 0 the loop ends at round i + R, where
\* i is the last round whose running minimum improved by more than the
\* tolerance, or at max_rounds if that is smaller: it breaks at the first round
\* that lies R rounds after the last improvement, and at no earlier round.
Improved(k) ==
    FloatAdd(hist.round_mins[k], args.early_stopping_tolerance)
        < (IF k = 1 THEN Inf ELSE hist.round_mins[k - 1])
LastImproved(n) == SetMax({k \in 1..n : Improved(k)} \cup {0})
StopDue(k) == k - LastImproved(k) >= args.early_stopping_rounds
C3_StopsRRoundsAfterLastImprovement ==
    (LoopEnded /\ args.early_stopping_rounds >= 0) =>
        /\ \A k \in 1..(hist.rounds - 1) : ~StopDue(k)
        /\ hist.rounds < args.max_rounds => StopDue(hist.rounds)

\* C4: with early_stopping_rounds < 0 and no native failure the loop executes
\* exactly max_rounds rounds, whatever the metrics and the tolerance.
C4_NoEarlyStopRunsMaxRounds ==
    (LoopEnded /\ args.early_stopping_rounds < 0) => hist.rounds = args.max_rounds

C4_Witness ==
    /\ LoopEnded /\ args.early_stopping_rounds < 0 /\ pc = "returned"
    /\ hist.rounds = MaxRounds /\ hist.steps >= MaxRounds
    /\ hist.round_mins[1] = hist.round_mins[MaxRounds]

\* C5: the third element of the returned tuple is the number of boosting
\* rounds that were completed.
C5_ThirdIsRoundsCompleted ==
    (Boosting /\ pc = "returned") => result[3] = hist.rounds

\* C6: min_metric is the minimum of all validation metrics apply_model_update
\* has returned so far in the run, at every boosting step, and the returned
\* min_metric is the minimum over the whole run.
C6_MinMetricIsRunningMinimum ==
    Boosting =>
        /\ locals.min_metric = MinSeen
        /\ pc = "returned" => result[2] = MinSeen

C6_Witness ==
    /\ Boosting /\ pc = "check" /\ hist.rounds = 0
    /\ hist.steps = 2 /\ hist.first_seen[1] = 1 /\ hist.first_seen[3] = 2
    /\ locals.min_metric = 1

\* C7: after the loop the model is read with get_current_model() when the
\* validation partition is empty and with get_best_model() otherwise; exactly
\* one of the two is called, once, and neither before the loop has ended.
C7_ReadsOneModelOnce ==
    Boosting =>
        /\ ModelReads <= 1
        /\ ModelReads = 1 => pc \in {"exit", "returned", "raised"}
        /\ pc = "returned" => ModelReads = 1
        /\ ValEmpty =>
              hist.get_best_model = 0 /\ Calls("GetBestModelFeatureGroup") = 0
        /\ ~ValEmpty =>
              hist.get_current_model = 0 /\ Calls("GetCurrentModelFeatureGroup") = 0

C7_Witness ==
    /\ Boosting /\ pc = "returned" /\ ValEmpty /\ hist.rounds >= 1
    /\ hist.get_current_model = 1 /\ Calls("GetCurrentModelFeatureGroup") >= 1

\* C8: with a non-empty validation partition the returned model is the
\* ensemble as it was after the boosting step that first returned the metric
\* returned as min_metric.
C8_ReturnedModelIsFirstMinimum ==
    (Boosting /\ pc = "returned" /\ ~ValEmpty /\ hist.steps > 0) =>
        \A i \in 1..Len(result[1]) : result[1][i].snapshot = hist.first_seen[result[2]]

C8_Witness ==
    /\ Boosting /\ pc = "returned" /\ ~ValEmpty /\ hist.steps >= 3
    /\ Len(result[1]) > 0
    /\ hist.first_seen[result[2]] < hist.steps
    /\ hist.first_seen[result[2]] > 1

\* the shapes of the tensors of the returned model
ReturnedShapes == [i \in 1..Len(result[1]) |-> result[1][i].tensor.shape]
BoostReturned == Boosting /\ pc = "returned"
ScenarioRun ==
    /\ BoostReturned /\ args.model_type = "regression"
    /\ args.features_bin_count = <<2, 4>> /\ args.feature_groups = ScenarioGroups

\* C15 as stated: the model cyclic_gradient_boost returns holds one tensor per
\* feature group, in feature-group order; for a regression run with bin counts
\* 2 and 4 and feature groups [[0],[1],[0,1]] the shapes are (2,), (4,), (4,2).
C15_ModelShapesPairReversed ==
    /\ BoostReturned => Len(result[1]) = Len(args.feature_groups)
    /\ ScenarioRun => ReturnedShapes = << <<2>>, <<4>>, <<4, 2>> >>

\* C15 amended: one tensor per feature group, in feature-group order (in a
\* regression run the tensor of a one-feature group has that feature's bin
\* count as its only axis); for the run above the shapes are (2,), (4,), (2,4).
C15_ModelShapesPairInOrder ==
    /\ BoostReturned => Len(result[1]) = Len(args.feature_groups)
    /\ (BoostReturned /\ args.model_type = "regression") =>
          \A i \in 1..Len(result[1]) :
             Len(args.feature_groups[i]) = 1 =>
                ReturnedShapes[i] =
                    <<PyIndex(args.features_bin_count, args.feature_groups[i][1])>>
    /\ ScenarioRun => ReturnedShapes = << <<2>>, <<4>>, <<2, 4>> >>

C15_Witness ==
    /\ ScenarioRun /\ hist.rounds >= 1 /\ hist.get_best_model = 1
    /\ ReturnedShapes = << <<2>>, <<4>>, <<2, 4>> >>

\* C17: the score list get_interactions returns is in descending order, and
\* candidates with equal scores keep the relative order they have in the
\* candidate list: the output is the scored candidates rearranged by a
\* permutation that never swaps two entries of equal score.
InteractionsReturned == entry = "interactions" /\ pc = "returned"
C17_ScoresDescendingStable ==
    InteractionsReturned =>
        LET n == Len(result[2])
        IN /\ n = Len(args.iter_feature_groups) /\ Len(result[1]) = n
           /\ \A i \in 1..(n - 1) : result[2][i] >= result[2][i + 1]
           /\ \E from \in Permutations(1..n) :
                 /\ \A i \in 1..n :
                       /\ result[1][i] = args.iter_feature_groups[from[i]]
                       /\ result[2][i] = locals.interaction_scores[from[i]][2]
                 /\ \A i, j \in 1..n :
                       (i < j /\ result[2][i] = result[2][j]) => from[i] < from[j]

C17_Witness ==
    /\ InteractionsReturned /\ Len(result[2]) = 2
    /\ result[2][1] = result[2][2]
    /\ result[1] = <<<<1, 0>>, <<0, 1>>>>
    /\ args.iter_feature_groups = result[1]

\* C21: once the interaction detector is created, FreeInteractionDetector is
\* called exactly once on every exit path of get_interactions (return, or an
\* exception of get_interaction_score part-way through the candidates), not
\* before the exit, and every score call is made on the live handle.
Ranking == entry = "interactions"
DetectorCreated == detector.interaction_handle # "None"
C21_FreeDetectorOncePerExit ==
    (Ranking /\ DetectorCreated) =>
        /\ Ended => Calls("FreeInteractionDetector") = 1
        /\ ~Ended => Calls("FreeInteractionDetector") = 0
        /\ native.stale = 0

C21_Witness ==
    /\ Ranking /\ DetectorCreated /\ pc = "raised"
    /\ Calls("CalculateInteractionScore") = 2
    /\ Len(locals.interaction_scores) = 1
    /\ Calls("FreeInteractionDetector") = 1

\* C22: when a native call of cyclic_gradient_boost or get_interactions
\* returns a non-zero status, no native call other than the free follows it
\* (no retry, no further generate/apply/score/model read) and the entry point
\* raises one error and returns nothing; a run without such a status and
\* without a rejected input returns a complete result.
WorkFunctions == NativeFunctions \ {"FreeBooster", "FreeInteractionDetector"}
CompleteResult ==
    IF Boosting
    THEN /\ Len(result) = 3
         /\ Len(result[1]) = Len(args.feature_groups)
    ELSE /\ Len(result) = 2
         /\ Len(result[1]) = Len(args.iter_feature_groups)
         /\ Len(result[2]) = Len(args.iter_feature_groups)
C22_NoRetryNoPartialResult ==
    (Boosting \/ Ranking) =>
        /\ hist.native_errors <= 1
        /\ hist.native_errors = 1 =>
              /\ exc # "none" /\ pc \in {"exit", "raised"} /\ result = "none"
              /\ \A f \in WorkFunctions : Calls(f) = hist.error_calls[f]
        /\ Ended => (pc = "raised") = (exc # "none")
        /\ pc = "returned" => hist.native_errors = 0 /\ CompleteResult

C22_Witness ==
    /\ Boosting /\ pc = "raised" /\ hist.native_errors = 1
    /\ hist.rounds = 1 /\ Calls("GenerateModelUpdate") = Calls("ApplyModelUpdate") + 1
    /\ Calls("ApplyModelUpdate") = hist.steps
    /\ Calls("FreeBooster") = 1

\* C25: absent a native error, every round sweeps every feature group once in
\* declaration order, each generate_model_update(g) immediately followed by
\* apply_model_update; the early-stopping check runs only after the full
\* sweep, so on return the generate calls and the apply calls both number
\* rounds executed times the number of feature groups.
C25_RoundSweepsEveryGroupInOrder ==
    (Boosting /\ BoosterCreated /\ hist.native_errors = 0) =>
        LET n == Len(args.feature_groups)
            generated == Calls("GenerateModelUpdate")
            applied == Calls("ApplyModelUpdate")
        IN /\ pc = "generate" =>
                 /\ generated = applied
                 /\ applied = hist.rounds * n + locals.feature_group_index
                 /\ locals.feature_group_index < n
           /\ pc = "apply" =>
                 /\ generated = applied + 1
                 /\ applied = hist.rounds * n + locals.feature_group_index
                 /\ native.update = locals.feature_group_index
           /\ pc = "check" =>
                 /\ generated = applied
                 /\ applied = (hist.rounds + 1) * n
           /\ pc \in {"for_episode", "select", "exit", "returned"} =>
                 /\ generated = applied
                 /\ applied = hist.rounds * n
                 /\ hist.steps = applied

C25_Witness ==
    /\ Boosting /\ pc = "returned" /\ hist.native_errors = 0
    /\ Len(args.feature_groups) = 3 /\ hist.rounds = 2
    /\ Calls("GenerateModelUpdate") = 6 /\ Calls("ApplyModelUpdate") = 6

\* C26: in every round's early-stopping check the baseline becomes min_metric
\* exactly when the check begins with run length 0; the run length becomes 0
\* exactly when min_metric + early_stopping_tolerance is strictly below the
\* baseline and grows by 1 otherwise, so equality counts as no improvement.
C26_EarlyStoppingBookkeeping ==
    [][(Boosting /\ pc = "check") =>
          LET sum == IF locals.min_metric = Inf THEN Inf
                     ELSE locals.min_metric + args.early_stopping_tolerance
              baseline == locals'.bp_metric
          IN /\ locals.no_change_run_length = 0 => baseline = locals.min_metric
             /\ locals.no_change_run_length # 0 => baseline = locals.bp_metric
             /\ sum < baseline => locals'.no_change_run_length = 0
             /\ sum >= baseline =>
                   locals'.no_change_run_length = locals.no_change_run_length + 1
             /\ locals'.min_metric = locals.min_metric]_vars

\* a second round whose min_metric + tolerance equals the baseline of the
\* first has been counted as no improvement
C26_Witness ==
    /\ Boosting /\ pc \in {"for_episode", "select"} /\ hist.rounds = 2
    /\ args.early_stopping_tolerance = 1
    /\ locals.min_metric + 1 = locals.bp_metric
    /\ hist.round_mins[1] = locals.bp_metric
    /\ locals.no_change_run_length = 2

\* C31: with early_stopping_tolerance >= 0, max_rounds >= 1 and
\* early_stopping_rounds 0 or 1, cyclic_gradient_boost executes exactly one
\* round whatever validation metrics the engine answers.
C31_OneRoundWhenPatienceAtMostOne ==
    (/\ Boosting /\ BoosterCreated /\ hist.native_errors = 0
     /\ args.early_stopping_tolerance >= 0 /\ args.max_rounds >= 1
     /\ args.early_stopping_rounds \in {0, 1}) =>
        /\ hist.rounds <= 1
        /\ LoopEnded => hist.rounds = 1
        /\ pc = "returned" =>
              /\ Calls("GenerateModelUpdate") = Len(args.feature_groups)
              /\ Calls("ApplyModelUpdate") = Len(args.feature_groups)

\* three rounds allowed, a metric below infinity seen, one round run
C31_Witness ==
    /\ Boosting /\ pc = "returned"
    /\ args.early_stopping_tolerance = 0 /\ args.max_rounds = 3
    /\ args.early_stopping_rounds = 1
    /\ Len(args.feature_groups) = 2 /\ locals.min_metric < Inf
    /\ hist.rounds = 1 /\ Calls("ApplyModelUpdate") = 2

\* C32: with early_stopping_tolerance >= 0, every round whose bookkeeping
\* begins with run length 0 ends with run length exactly 1, the baseline being
\* set to the current min_metric before the comparison; so a round that
\* resets the run length never follows a round that reset it.
C32_RunLengthOneAfterZero ==
    [][(Boosting /\ pc = "check" /\ args.early_stopping_tolerance >= 0) =>
          /\ locals.no_change_run_length = 0 =>
                /\ locals'.no_change_run_length = 1
                /\ locals'.bp_metric = locals.min_metric
          /\ locals'.no_change_run_length = 0 => locals.no_change_run_length >= 1]_vars

\* a third round that lowered min_metric again right after a round that reset
\* the run length, and ended with run length 1
C32_Witness ==
    /\ Boosting /\ pc \in {"for_episode", "select"} /\ hist.rounds = 3
    /\ args.early_stopping_tolerance = 0
    /\ hist.round_mins[2] < hist.round_mins[1]
    /\ hist.round_mins[3] < hist.round_mins[2]
    /\ locals.no_change_run_length = 1
    /\ locals.bp_metric = hist.round_mins[3]

\* C33: with max_rounds = 0, cyclic_gradient_boost makes no generate or apply
\* call, still reads the model once and frees the handle once, and returns
\* min_metric = +infinity and 0 as third element.
C33_NoRoundsWhenMaxRoundsZero ==
    (Boosting /\ args.max_rounds = 0) =>
        /\ Calls("GenerateModelUpdate") = 0
        /\ Calls("ApplyModelUpdate") = 0
        /\ hist.rounds = 0
        /\ pc = "returned" =>
              /\ ModelReads = 1
              /\ Calls("FreeBooster") = 1
              /\ Len(result[1]) = Len(args.feature_groups)
              /\ result[2] = Inf
              /\ result[3] = 0

\* a run of no rounds that read the best model of two feature groups
C33_Witness ==
    /\ Boosting /\ args.max_rounds = 0 /\ pc = "returned"
    /\ Len(args.feature_groups) = 2 /\ hist.get_best_model = 1
    /\ Calls("GetBestModelFeatureGroup") = 2 /\ Calls("FreeBooster") = 1
    /\ result[2] = Inf /\ result[3] = 0

\* C37: at the moment cyclic_gradient_boost reads the model (get_best_model
\* or get_current_model) no update is staged: the staged index is -1 and
\* every update generated during the run has been applied.
C37_NothingStagedAtModelRead ==
    (Boosting /\ (pc = "select" \/ ModelReads > 0)) =>
        /\ booster.feature_group_index = -1
        /\ native.update = -1
        /\ Calls("GenerateModelUpdate") = Calls("ApplyModelUpdate")
        /\ hist.steps = Calls("ApplyModelUpdate")

\* the read after two rounds over two feature groups
C37_Witness ==
    /\ Boosting /\ pc = "exit" /\ exc = "none" /\ ModelReads = 1
    /\ hist.rounds = 2 /\ Calls("GenerateModelUpdate") = 4
    /\ Calls("ApplyModelUpdate") = 4 /\ booster.feature_group_index = -1

\* C38: within cyclic_gradient_boost and get_interactions no native operation
\* is issued on a handle after it has been freed: the model read and every
\* score call precede the free, after which the entry point only builds its
\* result from Python values.
C38_NoNativeCallAfterFree ==
    (Boosting \/ Ranking) =>
        /\ native.stale = 0
        /\ Calls("FreeBooster") + Calls("FreeInteractionDetector") <= 1
        /\ Calls("FreeBooster") + Calls("FreeInteractionDetector") = 1 => Ended
        /\ native.booster = "freed" => Calls("FreeBooster") = 1
        /\ native.detector = "freed" => Calls("FreeInteractionDetector") = 1

\* two candidates scored, the detector freed, the ranking returned
C38_Witness ==
    /\ Ranking /\ pc = "returned" /\ native.detector = "freed"
    /\ Calls("CalculateInteractionScore") = 2
    /\ Calls("FreeInteractionDetector") = 1
    /\ Len(result[1]) = 2 /\ native.stale = 0

\* C39: get_interactions returns two parallel lists as long as the candidate
\* list: the candidates rearranged, each at the position of the score
\* computed for it; the n_interactions argument never shortens or otherwise
\* changes the result.
C39_ResultIsAllCandidatesWithScores ==
    (Ranking /\ pc = "returned") =>
        LET candidates == args.iter_feature_groups
            n == Len(candidates)
        IN /\ Len(result[1]) = n /\ Len(result[2]) = n
           /\ Calls("CalculateInteractionScore") = n
           /\ Len(locals.interaction_scores) = n
           /\ \A k \in 1..n : locals.interaction_scores[k][1] = candidates[k]
           /\ \E from \in Permutations(1..n) :
                 \A i \in 1..n :
                    /\ result[1][i] = candidates[from[i]]
                    /\ result[2][i] = locals.interaction_scores[from[i]][2]

\* two candidates returned, the second first, with n_interactions = 1
C39_Witness ==
    /\ Ranking /\ pc = "returned" /\ args.n_interactions = 1
    /\ args.iter_feature_groups = <<<<0, 1>>, <<1, 0>>>>
    /\ result[1] = <<<<1, 0>>, <<0, 1>>>>
    /\ result[2][1] > result[2][2]

(***************************************************************************)
(* Properties of the NativeEBMBooster methods (SpecSession)                *)
(***************************************************************************)
Staged == booster.feature_group_index

\* C9: generate_model_update(g), called with any update staged or none, ends
\* with the staged index g when the native call succeeds and -1 when it fails,
\* and the native call is made with the staged index already cleared.
C9_GenerateStagesOrClears ==
    hist.last.op = "generate" =>
        /\ hist.last.raised = "none" => Staged = hist.last.arg
        /\ hist.last.raised # "none" => Staged = -1
        /\ hist.last.at_call \subseteq {-1}

C9_Witness ==
    /\ hist.last.op = "generate" /\ hist.last.before >= 0
    /\ hist.last.raised # "none" /\ hist.last.at_call = {-1}
    /\ Staged = -1 /\ pc = "open"

\* C10: apply_model_update leaves the staged index at -1, and the native apply
\* calls never outnumber the generate/set calls that staged an update.
C10_AppliesAtMostOncePerStaging ==
    /\ hist.last.op = "apply" => Staged = -1
    /\ Calls("ApplyModelUpdate") <= hist.stagings

\* C11: get_model_update_expanded raises the invalid-state error (RuntimeError)
\* and calls no native function whenever the staged index is -1: before any
\* generate/set, after apply_model_update, after a failed generate, and in a
\* single-class classification session too.
C11_GetWithoutUpdateRaises ==
    (hist.last.op = "get" /\ hist.last.before = -1) =>
        /\ hist.last.raised = "RuntimeError"
        /\ hist.last.calls = {}
        /\ Staged = -1

C11_Witness ==
    /\ hist.last.op = "get" /\ hist.last.before = -1
    /\ hist.last.raised = "RuntimeError"
    /\ SingleClass(booster)
    /\ Calls("GenerateModelUpdate") = 1 /\ Calls("ApplyModelUpdate") = 1

\* C12: in a classification session with n_classes <= 1,
\* get_model_update_expanded on a staged update returns None without a native
\* call; set_model_update_expanded(g, None) returns and stages g;
\* set_model_update_expanded(g, tensor) raises and leaves no update staged.
C12_SingleClassGetAndSet ==
    (pc = "open" /\ SingleClass(booster)) =>
        /\ (hist.last.op = "get" /\ hist.last.before >= 0) =>
              /\ hist.last.raised = "none" /\ hist.last.tensor = NoTensor
              /\ hist.last.calls = {}
        /\ (hist.last.op = "set" /\ hist.last.given = NoTensor) =>
              /\ hist.last.raised = "none" /\ Staged = hist.last.arg
              /\ hist.last.calls = {}
        /\ (hist.last.op = "set" /\ hist.last.given # NoTensor) =>
              /\ hist.last.raised # "none" /\ Staged = -1

C12_Witness ==
    /\ pc = "open" /\ SingleClass(booster)
    /\ hist.last.op = "get" /\ hist.last.before >= 0
    /\ hist.last.raised = "none" /\ hist.last.tensor = NoTensor
    /\ Calls("GenerateModelUpdate") = 0 /\ hist.stagings = 1

\* C13: round trip: when set_model_update_expanded(g, T) returns and the next
\* call is get_model_update_expanded() and returns, it returns a tensor equal
\* to T (same shape, same elements), for groups of one and of two features,
\* multiclass or not, the engine returning the tensor it was handed.
C13_SetThenGetReturnsTensor ==
    [][(/\ hist.last.op = "set" /\ hist.last.raised = "none"
        /\ hist.last.given # NoTensor
        /\ hist'.ops = hist.ops + 1
        /\ hist'.last.op = "get" /\ hist'.last.raised = "none")
       => hist'.last.tensor = hist.last.given]_vars

C13_Witness ==
    /\ hist.last.op = "get" /\ hist.last.raised = "none"
    /\ hist.ops = 2 /\ Calls("SetModelUpdateExpanded") = 1
    /\ Len(PyIndex(booster.feature_groups, Staged)) = 2 /\ booster.n_classes = 3
    /\ hist.last.tensor = Iota(<<2, 4, 3>>)
    /\ native.tensor.data # hist.last.tensor.data

\* the bin counts b_1..b_k of the staged group's features, then with the
\* trailing axis of a multiclass tensor
StagedBins ==
    LET feature_indexes == PyIndex(booster.feature_groups, Staged)
    IN [i \in 1..Len(feature_indexes) |->
          PyIndex(booster.features_bin_count, feature_indexes[i])]
WithClassAxis(dimensions) ==
    IF booster.n_classes > 2 THEN Append(dimensions, booster.n_classes) ELSE dimensions
GotTensor ==
    hist.last.op = "get" /\ hist.last.raised = "none" /\ hist.last.tensor # NoTensor

\* C14 as stated: the tensor get_model_update_expanded returns for a group of k
\* features with bin counts b_1..b_k has k axes of sizes reverse(b_1..b_k)
\* when n_classes <= 2 or regression, and a further trailing axis of size
\* n_classes when n_classes > 2.
C14_UpdateShapeIsReversedBins ==
    GotTensor => hist.last.tensor.shape = WithClassAxis(Reversed(StagedBins))

\* C14 amended: the returned tensor has those axes except for a group of
\* exactly two features, whose tensor is transposed on return and has sizes
\* (b_1, b_2), followed by the trailing axis of size n_classes when
\* n_classes > 2.
C14_UpdateShapeTransposedForPairs ==
    GotTensor =>
        hist.last.tensor.shape =
            WithClassAxis(IF Len(StagedBins) = 2 THEN StagedBins
                          ELSE Reversed(StagedBins))

C14_Witness ==
    /\ GotTensor /\ hist.last.tensor.shape = <<2, 4, 3>>
    /\ Calls("GenerateModelUpdate") = 1 /\ Calls("SetModelUpdateExpanded") = 0

\* C16: get_best_model() calls with no generate_model_update or
\* apply_model_update between them return identical tensor lists, and a
\* get_best_model() call leaves the booster handle and the staged index as
\* they were.
C16_GetBestModelIdempotent ==
    /\ \A i, j \in 1..Len(hist.best_seen) : hist.best_seen[i] = hist.best_seen[j]
    /\ hist.last.op = "get_best_model" =>
          /\ Staged = hist.last.before
          /\ booster.booster_handle = "H"

C16_Witness ==
    /\ hist.last.op = "get_best_model" /\ hist.last.raised = "none"
    /\ Len(hist.best_seen) = 2 /\ hist.best_seen[1] = hist.last.model
    /\ Len(hist.last.model) = Len(SessionGroups)
    /\ Calls("SetModelUpdateExpanded") = 1 /\ Staged >= 0

\* C28: get_interaction_score changes no state of the interaction session, so
\* on a deterministic engine the score returned for a feature tuple does not
\* depend on which tuples were scored before it or in what order.
C28_ScoreLeavesSessionUnchanged ==
    [][(entry = "scores" /\ pc = "open" /\ pc' = "open") =>
          /\ detector' = detector
          /\ native'.detector = native.detector
          /\ \A i, j \in 1..Len(hist'.scored) :
                hist'.scored[i].feature_index_tuple = hist'.scored[j].feature_index_tuple
                    => hist'.scored[i].score = hist'.scored[j].score]_vars

\* a tuple scored, another tuple scored to a different value, the first again
C28_Witness ==
    /\ entry = "scores" /\ Len(hist.scored) = 3
    /\ hist.scored[1].feature_index_tuple = hist.scored[3].feature_index_tuple
    /\ hist.scored[2].feature_index_tuple # hist.scored[1].feature_index_tuple
    /\ hist.scored[2].score # hist.scored[1].score
    /\ hist.scored[3].score = hist.scored[1].score
    /\ detector.interaction_handle = "H"

\* the cut lists the last call returned
GotCuts == hist.last.cuts

\* C27: get_model_update_cuts raises when no update is staged (index -1);
\* when staged for group g it returns one cut list per member feature of g,
\* in member order, and the list of a feature with bin_count bins has at most
\* bin_count - 1 entries.
C27_CutsPerMemberFeature ==
    (entry = "session" /\ hist.last.op = "get_cuts") =>
        /\ hist.last.before < 0 =>
              /\ hist.last.raised = "RuntimeError"
              /\ hist.last.calls = {}
        /\ hist.last.raised = "none" =>
              /\ hist.last.before \in 0..(Len(booster.feature_groups) - 1)
              /\ LET g == booster.feature_groups[hist.last.before + 1]
                 IN /\ Len(GotCuts) = Len(g)
                    /\ \A d \in 1..Len(g) :
                          /\ Len(GotCuts[d]) <= booster.features_bin_count[g[d] + 1] - 1
                          /\ \A i \in 1..Len(GotCuts[d]) : GotCuts[d][i] = <<d - 1, i>>
        /\ booster.feature_group_index = hist.last.before

\* the cuts of the group of three features: a list cut to its buffer of one
\* entry, a list shorter than its buffer, and an empty list
C27_Witness ==
    /\ entry = "session" /\ hist.last.op = "get_cuts" /\ hist.last.raised = "none"
    /\ booster.feature_groups[hist.last.before + 1] = <<0, 1, 2>>
    /\ Len(GotCuts) = 3
    /\ Len(GotCuts[1]) = 1 /\ Len(GotCuts[2]) = 2 /\ Len(GotCuts[3]) = 0

\* C23: the booster handle of a training session is None in every state
\* before open has succeeded and in every state after close() has run.
C23_HandleNoneBeforeOpenAfterClose ==
    entry = "session" =>
        /\ pc \in {"new", "failed"} => booster.booster_handle = "None"
        /\ pc = "closed" => booster.booster_handle = "None"

\* C35: apply_model_update clears the staged index before the native call, so
\* when the native apply fails the session is left with staged index -1, and
\* get_model_update_expanded and get_model_update_cuts raise the invalid-state
\* error instead of reading the update.
C35_FailedApplyLeavesNothingStaged ==
    (entry = "session" /\ hist.last.op = "apply") =>
        /\ hist.last.at_call = {-1}
        /\ Staged = -1
        /\ hist.last.raised # "none" =>
              /\ \A return_code \in ReturnCodes :
                    LET o == get_model_update_expanded(booster, native, return_code)
                    IN o.raised = "RuntimeError" /\ o.native = native
              /\ \A return_code \in ReturnCodes, fail_at \in 0..1 :
                    LET o == get_model_update_cuts(booster, native, <<>>, fail_at,
                                                   return_code)
                    IN o.raised = "RuntimeError" /\ o.native = native

\* an update of the pair group was staged and the native apply failed
C35_Witness ==
    /\ entry = "session" /\ pc = "open" /\ hist.last.op = "apply"
    /\ hist.last.before = 2 /\ hist.last.raised = "Out of memory"
    /\ hist.last.at_call = {-1} /\ Staged = -1
    /\ Calls("ApplyModelUpdate") = 1

\* C36: a set_model_update_expanded call that fails (tensor shape mismatch,
\* non-zero native status, concrete tensor in a single-class session, or any
\* other error) leaves the staged index at -1 even when an update was staged
\* before the call; only a call that returns stages its own index.
C36_FailedSetLeavesNothingStaged ==
    (entry = "session" /\ hist.last.op = "set") =>
        /\ hist.last.raised # "none" => Staged = -1
        /\ hist.last.raised = "none" => Staged = hist.last.arg
        /\ hist.last.at_call \subseteq {-1}

\* a tensor of the wrong shape handed to a session with an update staged
C36_Witness ==
    /\ entry = "session" /\ pc = "open" /\ hist.last.op = "set"
    /\ ~SingleClass(booster) /\ hist.last.before = 1 /\ hist.last.arg = 0
    /\ hist.last.given = Iota(<<2, 4>>) /\ hist.last.raised = "ValueError"
    /\ hist.last.calls = {} /\ Staged = -1

\* C34: in every reachable state of a NativeEBMBooster, after any sequence of
\* generate, apply and set calls with arbitrary index arguments, the staged
\* index is -1 or a valid index in 0..len(feature_groups)-1, also in a
\* single-class classification session.
C34_StagedIndexValidOrNone ==
    (entry = "session" /\ pc \in {"open", "closed"}) =>
        \/ Staged = -1
        \/ Staged \in 0..(Len(booster.feature_groups) - 1)

(***************************************************************************)
(* Properties of the constructors (SpecOpen)                               *)
(***************************************************************************)
OpenedBooster == entry = "open_booster" /\ pc # "new"
OpenedInteraction == entry = "open_interaction" /\ pc # "new"
\* the shape the data model gives the scores of n_samples samples
ScoresShape(n_samples) ==
    IF get_count_scores_c(args.n_classes) = 1 THEN <<n_samples>>
    ELSE <<n_samples, args.n_classes>>
\* a supplied score array with a wrong length, dimensionality or second dimension
ScoresWrong(scores, y) == scores # NoTensor /\ scores.shape # ScoresShape(y[1])
\* the shape rules of the training session, on arrays of the right dimensionality
BoosterRuleBroken ==
    \/ Len(args.features_categorical) # args.X_train[1]
    \/ Len(args.features_bin_count) # args.X_train[1]
    \/ args.X_train[2] # args.y_train[1]
    \/ args.X_val[2] # args.y_val[1]
    \/ args.X_val[1] # args.X_train[1]
    \/ args.w_train # args.y_train
    \/ args.w_val # args.y_val
    \/ ScoresWrong(args.scores_train, args.y_train)
    \/ ScoresWrong(args.scores_val, args.y_val)

\* C18: a training-session open whose arrays break a shape rule (length of
\* the categorical/bin-count arrays, sample counts, validation feature count,
\* weight shapes, length, dimensionality and second dimension of supplied
\* scores) raises with no native create call and leaves the handle None.
C18_BoosterOpenRejectsBadShapes ==
    (OpenedBooster /\ BoosterRuleBroken) =>
        /\ pc = "failed" /\ exc # "none"
        /\ Calls("CreateBooster") = 0
        /\ booster.booster_handle = "None"

C18_Witness ==
    /\ OpenedBooster /\ pc = "failed" /\ Calls("CreateBooster") = 0
    /\ args.n_classes = 3 /\ args.scores_train = NdArray(<<3, 2>>)
    /\ ~ScoresWrong(args.scores_val, args.y_val) /\ args.scores_val # NoTensor
    /\ booster_inputs_error(args) = "none"

\* C19: an interaction-session open whose weight array has another shape
\* than the target array raises with no native create call.
C19_InteractionOpenRejectsWeights ==
    (OpenedInteraction /\ args.w # args.y) =>
        /\ pc = "failed" /\ exc # "none"
        /\ Calls("CreateInteractionDetector") = 0

\* C20: when open is given no score array, the all-zero array handed to the
\* engine has shape [n_samples] when n_scores = 1 and [n_samples, n_scores]
\* when n_classes > 2.
C20_ZeroScoresHaveDataModelShape ==
    (OpenedBooster /\ Calls("CreateBooster") = 1) =>
        /\ args.scores_train = NoTensor =>
              hist.handed[1].shape = ScoresShape(args.y_train[1])
        /\ args.scores_val = NoTensor =>
              hist.handed[2].shape = ScoresShape(args.y_val[1])

(***************************************************************************)
(* Properties of the Native class (SpecSingleton, SpecNative)              *)
(***************************************************************************)
\* threads whose call of get_native_singleton has returned
Returned == {t \in Threads : pc[t] = "done"}

\* C24: for any interleaving of threads calling Native.get_native_singleton,
\* Native._initialize runs (the library is loaded) at most once and all
\* callers obtain the same binding instance.
C24_LoadedOncePerProcess ==
    entry = "get_native_singleton" =>
        /\ native.loads <= 1
        /\ \A t, u \in Returned : result[t] = result[u]

\* the level the last set_logging call resolved to
LastLevel == hist'.last.arg[Len(hist'.last.arg)]
OffLevels == {"logging.NOTSET", "NOTSET"}

\* C29: over any sequence of Native.set_logging calls, a callback is passed to
\* the engine only by a call whose level is not Off, and once one is installed
\* the binding keeps a reference to that same callback in every later state:
\* no later call, with level Off or any other, drops or replaces it.
C29_LogCallbackInstalledOnce ==
    [][entry = "native" =>
          /\ native'.calls.SetLogMessageFunction # native.calls.SetLogMessageFunction =>
                /\ hist'.last.op = "set_logging"
                /\ LastLevel \notin OffLevels
                /\ native'.trace_level # TraceLevelOff
                /\ native'.typed_log_func = native'.log_func
                /\ native'.typed_log_func # 0
          /\ native.typed_log_func # 0 =>
                /\ native'.typed_log_func = native.typed_log_func
                /\ native'.log_func = native.log_func
                /\ native'.calls.SetLogMessageFunction = native.calls.SetLogMessageFunction
          /\ native'.log_func # 0 => native'.typed_log_func = native'.log_func]_vars

\* a callback installed by one call is still held after a later call with
\* level Off
C29_Witness ==
    /\ entry = "native" /\ hist.ops >= 3
    /\ hist.last.op = "set_logging" /\ hist.last.raised = "none"
    /\ native.calls.SetTraceLevel >= 2
    /\ native.calls.SetLogMessageFunction = 1
    /\ native.typed_log_func = 1 /\ native.log_func = 1
    /\ native.trace_level = TraceLevelOff

KnownCodes == {2, 3, 4, 5, 6} \cup 10..18

\* C30: Native._get_native_exception is total over non-zero codes: each known
\* code (2-6, 10-18) maps to its own error, distinct from that of every other
\* known code, and every other non-zero code maps to the unrecognized-code
\* error, which names the code.
C30_ExceptionForEveryCode ==
    (entry = "native" /\ hist.last.op = "get_native_exception") =>
        LET error_code == hist.last.arg[1]
            native_function == hist.last.arg[2]
        IN /\ error_code \in KnownCodes =>
                 /\ result.text # "Unrecognized native return code"
                 /\ result.code = <<>>
                 /\ \A other \in KnownCodes \ {error_code} :
                       Native_get_native_exception(other, native_function).text
                           # result.text
           /\ error_code \notin KnownCodes =>
                 /\ result.text = "Unrecognized native return code"
                 /\ result.code = <<error_code>>
                 /\ result.function = <<native_function>>

C30_Witness ==
    /\ entry = "native" /\ hist.last.op = "get_native_exception"
    /\ hist.last.arg[1] = 9
    /\ result.text = "Unrecognized native return code" /\ result.code = <<9>>

\* C40: in sequential use, a get_native_singleton call whose _initialize
\* fails records no singleton (Native._native stays None), so the next call
\* attempts the load again; after one successful load every later call
\* returns that same instance without loading again.
C40_SingletonRecordedOnSuccessOnly ==
    [][(entry = "native" /\ hist'.ops # hist.ops
        /\ hist'.last.op = "get_native_singleton") =>
          /\ native.singleton = 0 =>
                /\ native'.attempts = native.attempts + 1
                /\ exc' # "none" =>
                      native'.singleton = 0 /\ native'.loads = native.loads
                /\ exc' = "none" =>
                      /\ native'.singleton # 0 /\ result' = native'.singleton
                      /\ native'.loads = native.loads + 1
          /\ native.singleton # 0 =>
                /\ native' = native
                /\ exc' = "none" /\ result' = native.singleton
          /\ native'.loads <= 1]_vars

\* a failed load, a successful one, and a later call that returned the
\* instance of the second
C40_Witness ==
    /\ entry = "native" /\ hist.last.op = "get_native_singleton"
    /\ hist.last.before = 1 /\ result = 1 /\ exc = "none"
    /\ native.attempts = 2 /\ native.loads = 1 /\ native.singleton = 1

====
